---- MODULE Spec2Model ----
(***************************************************************************)
(* A model of the VGRTool benchmarking harness:                            *)
(*   src/run_benchmark.py               the worker-pool variant            *)
(*   src/benchmarking/base_script.py    the per-dataset sequential variant *)
(*   src/benchmarking/run_nullaway.py   the staged sequential variant      *)
(*   src/benchmarking/run_benchmark.py  the staged variant with jar checks *)
(* The variable `script` says which of the scripts a behaviour runs; every *)
(* action belongs to one script and leaves the state of the others alone.  *)
(***************************************************************************)
EXTENDS Integers, Sequences, FiniteSets, TLC

VARIABLES
    script,         \* which program this behaviour runs
    analyzed,       \* per dataset, the analyzer (javac) runs made so far:
                    \* which copy was compiled, in which phase of the run
    \* ---- the log parser (all variants)
    raw,            \* the raw analyzer output handed to the parser
    warningCount,   \* src/run_benchmark.py:153
    error_count,    \* base_script.py:232
    matches,        \* src/benchmarking/run_nullaway.py:240-245, the list of match starts
    \* ---- src/run_benchmark.py (worker pool)
    argv,           \* sys.argv[1], "" when the script gets no argument
    todo,           \* the stages the main program still has to run
    mpc,            \* main thread: "start" | "join" | "done" | "crashed"
    cpu_count,      \* os.cpu_count(), the size of the worker pool
    isdir,          \* os.path.isdir of every entry of DATASETS_DIR
    dataset_state,  \* per dataset: "original" | "refactored" (sources on disk)
    COMPILATION,    \* COMPILATION_DIR: [exists, classes]
    task,           \* per dataset, the pool task of the running stage
    disturbed,      \* per dataset: COMPILATION_DIR was removed under its javac
    javac_status,   \* per dataset: "none" | "exit0" | "exit1" | "timeout"
    result,         \* per dataset: markers in the stderr its javac produced
    ret,            \* per dataset: what its task returned (None: nothing yet)
    completed,      \* datasets in the order their futures completed
    refactor_status,\* per dataset: "none" | "exit0" | "exit1" | "timeout"
    OUTPUT_CSV,     \* the file benchmarks.csv: None or a table
    df,             \* summarize(): None or [rows, average_diff]
    tmp,            \* the temporary files made so far, by name: the
                    \* dataset whose source list each one holds
    temp_src_filename,  \* per dataset: None or the name of its task's file
    \* ---- the environment
    findings,       \* what NullAway reports per dataset, before / after VGRTool
    \* ---- the directories of the sequential scripts
    DATASETS_CACHE,     \* datasets/cache: the set of its entries
    DATASETS_REFACTORED,\* datasets/refactored: None (absent) or its entries
    RESULTS,            \* results: None (absent) or [summary: None or a table]
    SOURCES,            \* sources: None or the datasets with a source list
    COMPILED_CLASSES,   \* compiled_classes: None or the datasets compiled
    \* ---- the main program of a sequential script
    pc,             \* where the program is
    stages,         \* the pipeline stages entered so far, in order
    exit_code,      \* None while running, else the process exit status
    tool_failed,    \* the external tools that returned a non-zero status
    benchmark_results,  \* the results DataFrame: None or a table
    stats,          \* None or [avg_diff, avg_percent_reduction]
    \* ---- src/benchmarking/run_nullaway.py
    sys_argv,       \* sys.argv[1], "" when there is none
    path,           \* run_benchmark's argument: "cache" | "refactored"
    listing,        \* the entries the loop of run_benchmark has yet to visit
    errors,         \* run_benchmark's dict, as a sequence of <<name, count>>
    \* ---- base_script.py
    limit,          \* run(limit): None or N
    datasets_list,  \* the datasets run() has yet to benchmark
    old_err_count,  \* get_errors before the refactoring
    results,        \* the list of result rows
    \* ---- src/benchmarking/run_benchmark.py
    jars,           \* the PROCESSOR_JARS paths that exist
    old_runs,       \* datasets/old-runs/refactored: the directories saved
    \* ---- the command builder (get_plugin_options, get_build_cmd)
    cmd_of,         \* the script whose command builder runs
    java_files,     \* the *.java files of the dataset, each a list of lines
    annotated_pkgs, \* None or the package list the find pipeline printed
    build_cmd       \* None or the javac command, a list of arguments

varsParse == <<raw, warningCount, error_count, matches>>

varsCmd == <<cmd_of, java_files, annotated_pkgs, build_cmd>>

varsPool == <<argv, todo, mpc, cpu_count, isdir, dataset_state, COMPILATION,
              task, disturbed, javac_status, result, ret, completed,
              refactor_status, OUTPUT_CSV, df, tmp, temp_src_filename>>

varsEnv == <<script, findings, analyzed>>

varsFS == <<DATASETS_CACHE, DATASETS_REFACTORED, RESULTS, SOURCES,
            COMPILED_CLASSES>>

varsMain == <<pc, stages, exit_code, tool_failed, benchmark_results, stats>>

varsSeq == <<sys_argv, path, listing, errors>>

varsBase == <<limit, datasets_list, old_err_count, results>>

varsJar == <<jars, old_runs>>

varsSequential == <<varsFS, varsMain, varsSeq, varsBase, varsJar>>

vars == <<varsEnv, varsParse, varsCmd, varsPool, varsSequential>>

Range(f) == {f[i] : i \in DOMAIN f}

\* A name that may be unbound or hold None: <<>> then, <<v>> when it holds v.
None == <<>>
Some(v) == <<v>>
Val(o) == o[1]

(***************************************************************************)
(* Text.  A Python str is modelled as a sequence of one-character strings. *)
(***************************************************************************)
RECURSIVE Flatten(_)
Flatten(ss) == IF ss = <<>> THEN <<>> ELSE Head(ss) \o Flatten(Tail(ss))

\* The marker NullAway prints for every finding: "error: [NullAway]".
MARKER ==
    <<"e","r","r","o","r",":"," ","[","N","u","l","l","A","w","a","y","]">>

(***************************************************************************)
(* str.count(sub): the number of non-overlapping occurrences found by a    *)
(* left-to-right scan; after a hit the scan resumes behind the hit.        *)
(***************************************************************************)
RECURSIVE CountFrom(_, _, _)
CountFrom(s, sub, i) ==
    IF i + Len(sub) - 1 > Len(s) THEN 0
    ELSE IF SubSeq(s, i, i + Len(sub) - 1) = sub
         THEN 1 + CountFrom(s, sub, i + Len(sub))
         ELSE CountFrom(s, sub, i + 1)

str_count(s, sub) == CountFrom(s, sub, 1)

(***************************************************************************)
(* The re module, for the patterns the scripts use: a pattern compiles to  *)
(* a sequence of character sets.  A backslash makes the next character a   *)
(* literal, "[" opens a character class that the next "]" closes, every    *)
(* other character stands for itself.                                      *)
(***************************************************************************)
RECURSIVE re_compile(_)
re_compile(p) ==
    IF p = <<>> THEN <<>>
    ELSE IF Head(p) = "\\"
         THEN <<{p[2]}>> \o re_compile(SubSeq(p, 3, Len(p)))
    ELSE IF Head(p) = "["
         THEN LET close == CHOOSE j \in 2..Len(p) :
                               p[j] = "]" /\ \A k \in 2..(j-1) : p[k] # "]"
              IN  <<{p[k] : k \in 2..(close-1)}>>
                      \o re_compile(SubSeq(p, close + 1, Len(p)))
    ELSE <<{Head(p)}>> \o re_compile(Tail(p))

\* Whether compiled pattern cp matches s at position i.
re_match_at(cp, s, i) ==
    /\ i + Len(cp) - 1 <= Len(s)
    /\ \A k \in 1..Len(cp) : s[i + k - 1] \in cp[k]

\* re.finditer: the start of every match, leftmost first, non-overlapping.
RECURSIVE FinditerFrom(_, _, _)
FinditerFrom(cp, s, i) ==
    IF i + Len(cp) - 1 > Len(s) THEN <<>>
    ELSE IF re_match_at(cp, s, i)
         THEN <<i>> \o FinditerFrom(cp, s, i + Len(cp))
         ELSE FinditerFrom(cp, s, i + 1)

re_finditer(p, s) == FinditerFrom(re_compile(p), s, 1)

\* re.findall returns the matched substrings of the same scan.
re_findall(p, s) ==
    LET starts == re_finditer(p, s)
        n      == Len(re_compile(p))
    IN  [j \in 1..Len(starts) |-> SubSeq(s, starts[j], starts[j] + n - 1)]

\* A pattern with its brackets left unescaped: "[NullAway]" is then a
\* character class, and the pattern matches "error: " and one letter of it.
ERROR_PATTERN_Unescaped ==
    <<"e","r","r","o","r",":"," ","[","N","u","l","l","A","w","a","y","]">>

\* The pattern source r"error: \[NullAway\]" (base_script.py:232), the same
\* characters as "error: \\[NullAway\\]" (src/benchmarking/run_nullaway.py:243).
ERROR_PATTERN ==
    <<"e","r","r","o","r",":"," ","\\","[","N","u","l","l","A","w","a","y",
      "\\","]">>


(***************************************************************************)
(* Rest states: what the variables of a script hold while another script   *)
(* runs.                                                                   *)
(***************************************************************************)
NumDatasets == 2
Datasets == 1..NumDatasets

\* DATASETS = os.listdir(DATASETS_DIR) (src/run_benchmark.py:68), in listing order.
DATASETS == [i \in 1..NumDatasets |-> i]

NotAnalyzed == [d \in Datasets |-> <<>>]

\* javac is run on the copy of dataset d kept under `copy`; found is the
\* number of markers in the output it leaves, None when it leaves none.
javac(d, copy, phase, found) ==
    analyzed' = [analyzed EXCEPT
                    ![d] = Append(@, [copy |-> copy, phase |-> phase,
                                      found |-> found])]

ParseIdle ==
    /\ raw = <<>>
    /\ warningCount = None
    /\ error_count = None
    /\ matches = None

CmdIdle ==
    /\ cmd_of = ""
    /\ java_files = <<>>
    /\ annotated_pkgs = None
    /\ build_cmd = None

PoolIdle ==
    /\ argv = ""
    /\ todo = <<>>
    /\ mpc = "done"
    /\ cpu_count = 1
    /\ isdir = [d \in Datasets |-> TRUE]
    /\ dataset_state = [d \in Datasets |-> "original"]
    /\ COMPILATION = [exists |-> FALSE, classes |-> {}]
    /\ task = [d \in Datasets |-> "idle"]
    /\ disturbed = [d \in Datasets |-> FALSE]
    /\ javac_status = [d \in Datasets |-> "none"]
    /\ result = [d \in Datasets |-> 0]
    /\ ret = [d \in Datasets |-> None]
    /\ completed = <<>>
    /\ refactor_status = [d \in Datasets |-> "none"]
    /\ OUTPUT_CSV = None
    /\ tmp = <<>>
    /\ temp_src_filename = [d \in Datasets |-> None]
    /\ df = None

SequentialIdle ==
    /\ DATASETS_CACHE = {}
    /\ DATASETS_REFACTORED = None
    /\ RESULTS = None
    /\ SOURCES = None
    /\ COMPILED_CLASSES = None
    /\ pc = "done"
    /\ stages = <<>>
    /\ exit_code = None
    /\ tool_failed = {}
    /\ benchmark_results = None
    /\ stats = None
    /\ sys_argv = ""
    /\ path = ""
    /\ listing = <<>>
    /\ errors = <<>>
    /\ limit = None
    /\ datasets_list = <<>>
    /\ old_err_count = None
    /\ results = <<>>
    /\ jars = {}
    /\ old_runs = <<>>

(***************************************************************************)
(* The log parser on its own: every text built from at most MaxChunks      *)
(* pieces, among them the marker, its two halves and a near miss.          *)
(***************************************************************************)
MaxChunks == 3

CHUNKS ==
    { MARKER,
      <<"e","r","r","o","r",":"," ","[","N","u","l","l">>,
      <<"A","w","a","y","]">>,
      <<"e","r","r","o","r",":"," ","N">>,
      <<"\n">> }

ChunkSeqs(n) == UNION {[1..k -> CHUNKS] : k \in 0..n}

InitParse ==
    /\ script = "parser"
    /\ \E cs \in ChunkSeqs(MaxChunks) : raw = Flatten(cs)
    /\ warningCount = None
    /\ error_count = None
    /\ matches = None
    /\ findings = [d \in Datasets |-> [before |-> 0, after |-> 0]]
    /\ analyzed = NotAnalyzed
    /\ CmdIdle
    /\ PoolIdle
    /\ SequentialIdle

\* src/run_benchmark.py:153  warningCount = result.count("error: [NullAway]")
CountWarnings ==
    /\ script = "parser"
    /\ warningCount = None
    /\ warningCount' = Some(str_count(raw, MARKER))
    /\ UNCHANGED <<varsEnv, varsSequential, raw, error_count, matches, varsCmd,
                   varsPool>>

\* base_script.py:232  error_count = len(re.findall(r"error: \[NullAway\]", ...))
CountFindall ==
    /\ script = "parser"
    /\ error_count = None
    /\ error_count' = Some(Len(re_findall(ERROR_PATTERN, raw)))
    /\ UNCHANGED <<varsEnv, varsSequential, raw, warningCount, matches, varsCmd,
                   varsPool>>

\* src/benchmarking/run_nullaway.py:240-245  [match.start() for match in re.finditer(...)]
CountFinditer ==
    /\ script = "parser"
    /\ matches = None
    /\ matches' = Some(re_finditer(ERROR_PATTERN, raw))
    /\ UNCHANGED <<varsEnv, varsSequential, raw, warningCount, error_count, varsCmd,
                   varsPool>>

NextParse == CountWarnings \/ CountFindall \/ CountFinditer

SpecParse == InitParse /\ [][NextParse]_vars


(***************************************************************************)
(* src/run_benchmark.py: the worker-pool variant.                           *)
(*                                                                         *)
(* The external tools are the environment.  What NullAway finds in a       *)
(* dataset depends on the dataset and on whether VGRTool has rewritten it. *)
(***************************************************************************)
NullAwayFindings(d, state) ==
    findings[d][IF state = "refactored" THEN "after" ELSE "before"]

\* The findings the worker-pool runs are explored with: dataset d has d
\* findings, and the refactoring removes one of them.
PoolFindings == [d \in Datasets |-> [before |-> d, after |-> d - 1]]

\* The stderr of a javac run that reports k findings.
StderrText(k) ==
    Flatten([i \in 1..k |-> <<"A", ":", " ">> \o MARKER \o <<"\n">>])

SENTINEL == -999

MaxCpu == 2

POOL_ARGV ==
    {"", "initialize", "finalize", "refactor", "summarize", "skip-init",
     "reset", "test", "help"}

\* A main program whose full run refactors before the first analysis.
main_RefactorFirst(a) ==
    CASE a = ""           -> <<"reset", "refactor", "initialize_benchmark",
                               "finalize_benchmark", "summarize">>
      [] a = "initialize" -> <<"initialize_benchmark">>
      [] a = "finalize"   -> <<"finalize_benchmark">>
      [] a = "refactor"   -> <<"refactor">>
      [] a = "summarize"  -> <<"summarize">>
      [] a = "skip-init"  -> <<"refactor", "finalize_benchmark", "summarize">>
      [] a = "reset"      -> <<"reset">>
      [] OTHER            -> <<>>

\* src/run_benchmark.py:253-280: the stages each command line runs, in order.
main(a) ==
    CASE a = ""           -> <<"reset", "initialize_benchmark", "refactor",
                               "finalize_benchmark", "summarize">>
      [] a = "initialize" -> <<"initialize_benchmark">>
      [] a = "finalize"   -> <<"finalize_benchmark">>
      [] a = "refactor"   -> <<"refactor">>
      [] a = "summarize"  -> <<"summarize">>
      [] a = "skip-init"  -> <<"refactor", "finalize_benchmark", "summarize">>
      [] a = "reset"      -> <<"reset">>
      [] OTHER            -> <<>>

\* What one call of run_benchmark returns for d when nothing else runs.
run_benchmark_alone(d) ==
    IF ~isdir[d] THEN SENTINEL
    ELSE str_count(StderrText(NullAwayFindings(d, dataset_state[d])), MARKER)

\* The file an earlier "initialize" of the untouched datasets leaves behind.
EarlierCsv(dirs) ==
    [i \in 1..NumDatasets |->
        [name |-> DATASETS[i],
         pre_value |-> IF dirs[DATASETS[i]]
                       THEN PoolFindings[DATASETS[i]].before
                       ELSE SENTINEL]]

\* The file an earlier full run leaves behind (finalize_benchmark, 219-223).
EarlierFullCsv(dirs) ==
    [i \in 1..NumDatasets |->
        EarlierCsv(dirs)[i] @@
            [post_value |-> IF dirs[DATASETS[i]]
                            THEN PoolFindings[DATASETS[i]].after
                            ELSE SENTINEL]]

\* The sources an earlier full run leaves behind (refactor_dataset, 181-201):
\* VGRTool rewrote every dataset directory in place.
EarlierRefactored(dirs) ==
    [d \in Datasets |-> IF dirs[d] THEN "refactored" ELSE "original"]

InitPool ==
    /\ script = "src/run_benchmark.py"
    /\ findings = PoolFindings
    /\ analyzed = NotAnalyzed
    /\ ParseIdle
    /\ CmdIdle
    /\ SequentialIdle
    /\ argv \in POOL_ARGV
    /\ todo = main(argv)
    /\ mpc = IF main(argv) = <<>> THEN "done" ELSE "start"
    /\ cpu_count \in 1..MaxCpu
    /\ isdir \in [Datasets -> BOOLEAN]
    \* src/run_benchmark.py:77-88 creates COMPILATION_DIR when the module loads
    /\ COMPILATION = [exists |-> TRUE, classes |-> {}]
    /\ task = [d \in Datasets |-> "idle"]
    /\ disturbed = [d \in Datasets |-> FALSE]
    /\ javac_status = [d \in Datasets |-> "none"]
    /\ result = [d \in Datasets |-> 0]
    /\ ret = [d \in Datasets |-> None]
    /\ completed = <<>>
    /\ refactor_status = [d \in Datasets |-> "none"]
    /\ OUTPUT_CSV \in {None, Some(EarlierCsv(isdir)),
                       Some(EarlierFullCsv(isdir))}
    \* the earlier full run left the datasets refactored, unless a reset
    \* restored them since
    /\ dataset_state \in
         {[d \in Datasets |-> "original"]} \cup
         (IF OUTPUT_CSV = Some(EarlierFullCsv(isdir))
          THEN {EarlierRefactored(isdir)} ELSE {})
    /\ df = None
    /\ tmp = <<>>
    /\ temp_src_filename = [d \in Datasets |-> None]

Stage == Head(todo)

\* The main program goes on to its next stage, or ends.
Advance ==
    /\ todo' = Tail(todo)
    /\ mpc' = IF Tail(todo) = <<>> THEN "done" ELSE "start"

TaskLocals == <<task, disturbed, javac_status, result, ret, completed,
                refactor_status, temp_src_filename>>

\* src/run_benchmark.py:248-250  reset(): git restore benchmarking/datasets/
reset ==
    /\ script = "src/run_benchmark.py" /\ mpc = "start" /\ Stage = "reset"
    /\ dataset_state' = [d \in Datasets |-> "original"]
    /\ Advance
    /\ UNCHANGED <<varsEnv, varsParse, varsCmd, varsSequential, argv, cpu_count, tmp, isdir, COMPILATION,
                   TaskLocals, OUTPUT_CSV, df>>

\* executor.submit(f, dataset) for dataset in DATASETS
\* (src/run_benchmark.py:160-163, 205-206): every task is queued.
Submit ==
    /\ task' = [d \in Datasets |-> "queued"]
    /\ disturbed' = [d \in Datasets |-> FALSE]
    /\ javac_status' = [d \in Datasets |-> "none"]
    /\ result' = [d \in Datasets |-> 0]
    /\ ret' = [d \in Datasets |-> None]
    /\ completed' = <<>>
    /\ refactor_status' = [d \in Datasets |-> "none"]
    /\ temp_src_filename' = [d \in Datasets |-> None]

\* initialize_benchmark (172-174) and refactor (204-206) up to the submits.
StartPool ==
    /\ script = "src/run_benchmark.py" /\ mpc = "start"
    /\ Stage \in {"initialize_benchmark", "refactor"}
    /\ Submit
    /\ mpc' = "join"
    /\ UNCHANGED <<varsEnv, varsParse, varsCmd, varsSequential, argv, todo, cpu_count, tmp, isdir,
                   dataset_state, COMPILATION, OUTPUT_CSV, df>>

\* finalize_benchmark (215-220): pd.read_csv(OUTPUT_CSV) comes first and
\* raises FileNotFoundError when no earlier stage wrote the file.
StartFinalize ==
    /\ script = "src/run_benchmark.py" /\ mpc = "start"
    /\ Stage = "finalize_benchmark"
    /\ IF OUTPUT_CSV = None
       THEN mpc' = "crashed" /\ UNCHANGED TaskLocals
       ELSE mpc' = "join" /\ Submit
    /\ UNCHANGED <<varsEnv, varsParse, varsCmd, varsSequential, argv, todo, cpu_count, tmp, isdir,
                   dataset_state, COMPILATION, OUTPUT_CSV, df>>

Running == {"javac", "log", "java"}

\* A ThreadPoolExecutor takes queued work in submission order and runs at
\* most max_workers = os.cpu_count() tasks at a time.
CanStart(d) ==
    /\ task[d] = "queued"
    /\ Cardinality({e \in Datasets : task[e] \in Running})
         + Cardinality({e \in Datasets : e < d /\ task[e] = "queued"})
       < cpu_count

AnalyzerStage == Stage \in {"initialize_benchmark", "finalize_benchmark"}

\* initialize_benchmark analyzes before VGRTool, finalize_benchmark after.
PoolPhase == IF Stage = "initialize_benchmark" THEN "before" ELSE "after"

\* A temporary file under one name that every call shares.
NamedTemporaryFile_Shared(files, d) == <<0, 0>>

\* tempfile.NamedTemporaryFile(mode="w", delete=False, suffix=".txt")
\* (103-105) creates a file under a random name that no existing file has,
\* and no file is ever deleted.  The name is written as the pair of the
\* dataset of the call and the number of files made for it so far.
NamedTemporaryFile(files, d) ==
    <<d, 1 + Cardinality({n \in DOMAIN files : n[1] = d})>>

\* open(name, "w") followed by the write of content: the file is created,
\* or what it held is replaced.
open_w(files, name, content) ==
    [n \in DOMAIN files \cup {name} |->
        IF n = name THEN content ELSE files[n]]

\* run_benchmark, lines 92-118: the isdir test, makedirs(COMPILATION_DIR),
\* then find writes the dataset's source list into a temporary file.
run_benchmark_begin(d) ==
    /\ script = "src/run_benchmark.py" /\ mpc = "join" /\ AnalyzerStage
    /\ CanStart(d)
    /\ IF ~isdir[d]
       THEN /\ ret' = [ret EXCEPT ![d] = Some([name |-> d, value |-> SENTINEL])]
            /\ task' = [task EXCEPT ![d] = "done"]
            /\ completed' = Append(completed, d)
            /\ UNCHANGED <<COMPILATION, tmp, temp_src_filename>>
       ELSE /\ COMPILATION' = [COMPILATION EXCEPT !.exists = TRUE]
            /\ LET name == NamedTemporaryFile(tmp, d) IN
                 /\ temp_src_filename' =
                      [temp_src_filename EXCEPT ![d] = Some(name)]
                 /\ tmp' = open_w(tmp, name, d)
            /\ task' = [task EXCEPT ![d] = "javac"]
            /\ UNCHANGED <<ret, completed>>
    /\ UNCHANGED <<varsEnv, varsParse, varsCmd, varsSequential, argv, todo, mpc, cpu_count, isdir,
                   dataset_state, disturbed, javac_status, result,
                   refactor_status, OUTPUT_CSV, df>>

\* run_benchmark, lines 120-143: javac runs on @{temp_src_filename} under
\* timeout=TIMEOUT.  NullAway reports
\* at ERROR level, so javac exits 0 only when it has nothing to report.  A
\* javac whose output directory another task removed meanwhile may also
\* fail without reaching the analysis.
run_benchmark_javac(d) ==
    /\ script = "src/run_benchmark.py" /\ mpc = "join" /\ AnalyzerStage
    /\ task[d] = "javac"
    /\ \E outcome \in {"ends", "timeout"} \cup
                      (IF disturbed[d] THEN {"broken"} ELSE {}) :
         CASE outcome = "timeout" ->
                \* subprocess.TimeoutExpired leaves run_benchmark
                /\ javac(d, "datasets", PoolPhase, None)
                /\ javac_status' = [javac_status EXCEPT ![d] = "timeout"]
                /\ task' = [task EXCEPT ![d] = "raised"]
                /\ completed' = Append(completed, d)
                /\ UNCHANGED <<result, COMPILATION>>
           [] outcome = "broken" ->
                /\ javac(d, "datasets", PoolPhase, Some(0))
                /\ javac_status' = [javac_status EXCEPT ![d] = "exit1"]
                /\ result' = [result EXCEPT ![d] = 0]
                /\ task' = [task EXCEPT ![d] = "log"]
                /\ UNCHANGED <<completed, COMPILATION>>
           [] outcome = "ends" ->
                LET k == NullAwayFindings(d, dataset_state[d]) IN
                /\ javac(d, "datasets", PoolPhase, Some(k))
                /\ result' = [result EXCEPT ![d] = k]
                /\ \E code \in (IF k = 0 THEN {"exit0", "exit1"} ELSE {"exit1"}) :
                     /\ javac_status' = [javac_status EXCEPT ![d] = code]
                     /\ COMPILATION' =
                          IF code = "exit0"
                          THEN [exists |-> TRUE,
                                classes |-> COMPILATION.classes \cup {d}]
                          ELSE COMPILATION
                /\ task' = [task EXCEPT ![d] = "log"]
                /\ UNCHANGED completed
    /\ UNCHANGED <<script, findings, varsParse, varsCmd, varsSequential, argv, todo,
                   mpc, cpu_count, tmp, isdir, dataset_state, disturbed, temp_src_filename, ret,
                   refactor_status, OUTPUT_CSV, df>>

\* run_benchmark, lines 145-155: the log is written, the markers counted,
\* COMPILATION_DIR removed, the record returned.
run_benchmark_end(d) ==
    /\ script = "src/run_benchmark.py" /\ mpc = "join" /\ AnalyzerStage
    /\ task[d] = "log"
    /\ LET count == str_count(StderrText(result[d]), MARKER) IN
         ret' = [ret EXCEPT ![d] = Some([name |-> d, value |-> count])]
    /\ COMPILATION' = [exists |-> FALSE, classes |-> {}]
    /\ disturbed' = [e \in Datasets |->
                        disturbed[e] \/ (e # d /\ task[e] = "javac")]
    /\ task' = [task EXCEPT ![d] = "done"]
    /\ completed' = Append(completed, d)
    /\ UNCHANGED <<varsEnv, varsParse, varsCmd, varsSequential, argv, todo, mpc, cpu_count, tmp, isdir,
                   dataset_state, javac_status, result, refactor_status,
                   temp_src_filename, OUTPUT_CSV, df>>

\* refactor_dataset, lines 181-191: the log file is opened, the tool started.
refactor_dataset_begin(d) ==
    /\ script = "src/run_benchmark.py" /\ mpc = "join" /\ Stage = "refactor"
    /\ CanStart(d)
    /\ task' = [task EXCEPT ![d] = "java"]
    /\ UNCHANGED <<varsEnv, varsParse, varsCmd, varsSequential, argv, todo, mpc, cpu_count, tmp, isdir,
                   dataset_state, COMPILATION, disturbed, temp_src_filename, javac_status,
                   result, ret, completed, refactor_status, OUTPUT_CSV, df>>

\* refactor_dataset, lines 192-201: subprocess.run(cmd, timeout=TIMEOUT).
\* The tool rewrites the dataset in place; a run that fails or is killed is
\* taken to leave the sources as they were.
refactor_dataset_end(d) ==
    /\ script = "src/run_benchmark.py" /\ mpc = "join" /\ Stage = "refactor"
    /\ task[d] = "java"
    /\ \E outcome \in {"exit0", "exit1", "timeout"} :
         /\ refactor_status' = [refactor_status EXCEPT ![d] = outcome]
         /\ task' = [task EXCEPT ![d] =
                        IF outcome = "timeout" THEN "raised" ELSE "done"]
         /\ dataset_state' =
              IF outcome = "exit0" /\ isdir[d]
              THEN [dataset_state EXCEPT ![d] = "refactored"]
              ELSE dataset_state
    /\ completed' = Append(completed, d)
    /\ UNCHANGED <<varsEnv, varsParse, varsCmd, varsSequential, argv, todo, mpc, cpu_count, tmp, isdir,
                   COMPILATION, disturbed, temp_src_filename, javac_status, result, ret,
                   OUTPUT_CSV, df>>

\* A join that waits for the first task to finish only.
AllFinished_First == \E d \in Datasets : task[d] \in {"done", "raised"}

\* Leaving the with-block of the ThreadPoolExecutor (160, 205) waits for
\* every submitted task.
AllFinished == \A d \in Datasets : task[d] \in {"done", "raised"}
SomeRaised == \E d \in Datasets : task[d] = "raised"

\* results = [f.result() for f in as_completed(futures)]; pd.DataFrame(results)
\* (src/run_benchmark.py:164-165): one record per future, in completion order.
run_benchmarks == [i \in 1..Len(completed) |-> Val(ret[completed[i]])]

\* DataFrame.rename(columns={"value": to})
rename(data, to) ==
    [i \in 1..Len(data) |->
        [c \in (DOMAIN data[i] \ {"value"}) \cup {to} |->
            IF c = to THEN data[i].value ELSE data[i][c]]]

\* DataFrame.drop(columns=[col], errors="ignore")
drop(data, col) ==
    [i \in 1..Len(data) |-> [c \in DOMAIN data[i] \ {col} |-> data[i][c]]]

\* A join that pairs the rows of the two tables by their position.
merge_ByPosition(left, right) ==
    [i \in 1..(IF Len(left) < Len(right) THEN Len(left) ELSE Len(right)) |->
        left[i] @@ right[i]]

\* pd.merge(left, right, on="name", how="inner"): the rows of left, in
\* left's order, each joined with every row of right of the same name.
RECURSIVE merge(_, _)
merge(left, right) ==
    IF left = <<>> THEN <<>>
    ELSE LET l == Head(left)
             hits == SelectSeq(right, LAMBDA r : r.name = l.name)
         IN  [j \in 1..Len(hits) |-> l @@ hits[j]] \o merge(Tail(left), right)

\* The with-block of run_benchmarks / refactor ends once every task has
\* finished; f.result() re-raises what a task raised, and nothing catches it.
Join ==
    /\ script = "src/run_benchmark.py" /\ mpc = "join"
    /\ AllFinished
    /\ IF SomeRaised
       THEN /\ mpc' = "crashed"
            /\ UNCHANGED <<todo, OUTPUT_CSV>>
       ELSE /\ Advance
            /\ OUTPUT_CSV' =
                 CASE Stage = "initialize_benchmark" ->
                        \* lines 174-176
                        Some(rename(run_benchmarks, "pre_value"))
                   [] Stage = "finalize_benchmark" ->
                        \* lines 217-223
                        Some(merge(drop(Val(OUTPUT_CSV), "post_value"),
                                   rename(run_benchmarks, "post_value")))
                   [] OTHER -> OUTPUT_CSV
    /\ UNCHANGED <<varsEnv, varsParse, varsCmd, varsSequential, argv, cpu_count, tmp, isdir, dataset_state,
                   COMPILATION, TaskLocals, df>>

RECURSIVE SeqSum(_)
SeqSum(xs) == IF xs = <<>> THEN 0 ELSE Head(xs) + SeqSum(Tail(xs))

\* src/run_benchmark.py:230  df["difference"] = df["pre_value"] - df["post_value"]
difference(row) == row.pre_value - row.post_value

\* A summarize that writes its table back to the results file.
summarize_Saving ==
    /\ script = "src/run_benchmark.py" /\ mpc = "start" /\ Stage = "summarize"
    /\ IF \/ OUTPUT_CSV = None
          \/ \E i \in 1..Len(Val(OUTPUT_CSV)) :
                ~({"pre_value", "post_value"} \subseteq DOMAIN Val(OUTPUT_CSV)[i])
       THEN \* FileNotFoundError, or KeyError: 'post_value'
            mpc' = "crashed" /\ UNCHANGED <<todo, df, OUTPUT_CSV>>
       ELSE LET rows == [i \in 1..Len(Val(OUTPUT_CSV)) |->
                           Val(OUTPUT_CSV)[i] @@
                             [difference |-> difference(Val(OUTPUT_CSV)[i])]]
            IN  /\ df' = Some([rows |-> rows,
                               average_diff |->
                                 <<SeqSum([i \in 1..Len(rows) |-> rows[i].difference]),
                                   Len(rows)>>])
                /\ OUTPUT_CSV' = Some(rows)
                /\ Advance
    /\ UNCHANGED <<varsEnv, varsParse, varsCmd, varsSequential, argv, cpu_count, tmp, isdir, dataset_state,
                   COMPILATION, TaskLocals>>

\* summarize (226-245): the file is read, the difference column added and
\* averaged.  A mean is kept as <<sum, number of values>>.
summarize ==
    /\ script = "src/run_benchmark.py" /\ mpc = "start" /\ Stage = "summarize"
    /\ IF \/ OUTPUT_CSV = None
          \/ \E i \in 1..Len(Val(OUTPUT_CSV)) :
                ~({"pre_value", "post_value"} \subseteq DOMAIN Val(OUTPUT_CSV)[i])
       THEN \* FileNotFoundError, or KeyError: 'post_value'
            mpc' = "crashed" /\ UNCHANGED <<todo, df>>
       ELSE LET rows == [i \in 1..Len(Val(OUTPUT_CSV)) |->
                           Val(OUTPUT_CSV)[i] @@
                             [difference |-> difference(Val(OUTPUT_CSV)[i])]]
            IN  /\ df' = Some([rows |-> rows,
                               average_diff |->
                                 <<SeqSum([i \in 1..Len(rows) |-> rows[i].difference]),
                                   Len(rows)>>])
                /\ Advance
    /\ UNCHANGED <<varsEnv, varsParse, varsCmd, varsSequential, argv, cpu_count, tmp, isdir, dataset_state,
                   COMPILATION, TaskLocals, OUTPUT_CSV>>

NextPool ==
    \/ reset
    \/ StartPool
    \/ StartFinalize
    \/ \E d \in Datasets : run_benchmark_begin(d)
    \/ \E d \in Datasets : run_benchmark_javac(d)
    \/ \E d \in Datasets : run_benchmark_end(d)
    \/ \E d \in Datasets : refactor_dataset_begin(d)
    \/ \E d \in Datasets : refactor_dataset_end(d)
    \/ Join
    \/ summarize

SpecPool == InitPool /\ [][NextPool]_vars


(***************************************************************************)
(* Directories of the sequential scripts.  An entry of a datasets          *)
(* directory is [name, kind]: kind "file" for a plain file, else the state *)
(* of the dataset's sources: "original", "annotated" or "refactored".      *)
(***************************************************************************)
IsDir(e) == e.kind # "file"

\* The NJR-1 archive unpacks to one directory per dataset.
ARCHIVE == {[name |-> d, kind |-> "original"] : d \in Datasets}

\* What a failed extraction leaves in the cache: njr-1_dataset.zip.
ZIP == [name |-> 0, kind |-> "file"]

\* os.listdir returns the entries in an order of the file system's choosing.
Orderings(S) ==
    {f \in [1..Cardinality(S) -> S] : \A i, j \in 1..Cardinality(S) :
                                          f[i] = f[j] => i = j}

\* os.makedirs(dir, exist_ok=True) on a directory kept as None / Some(c).
makedirs(dir, empty) == IF dir = None THEN Some(empty) ELSE dir

NoSummary == [summary |-> None]

\* VGRTool run over a whole datasets directory rewrites every dataset in it.
RefactorAll(entries) ==
    {IF IsDir(e) THEN [e EXCEPT !.kind = "refactored"] ELSE e : e \in entries}

(***************************************************************************)
(* The summary table (base_script.py:322-355 and                           *)
(* src/benchmarking/run_nullaway.py:137-171).                              *)
(* A percentage is kept exactly, as PercentScale times its value, and a    *)
(* mean as <<sum, number of values>>.  A cell of the Float64 column is     *)
(* None when it holds pd.NA.                                               *)
(***************************************************************************)
MaxFindings == 2

RECURSIVE Factorial(_)
Factorial(n) == IF n <= 1 THEN 1 ELSE n * Factorial(n - 1)

PercentScale == Factorial(MaxFindings)

\* A reduction that is never reported below zero.
error_reduction_Clamped(row) ==
    IF row.initial_error_count > row.refactored_error_count
    THEN row.initial_error_count - row.refactored_error_count
    ELSE 0

\* base_script.py:327-330
error_reduction(row) == row.initial_error_count - row.refactored_error_count

\* base_script.py:333-346: the lambda, then .astype("Float64") and the
\* replacement of +-inf by pd.NA (the lambda never produces an inf).
error_reduction_percent(row) ==
    IF row.initial_error_count # 0
    THEN Some((error_reduction(row) * 100 * PercentScale)
                  \div row.initial_error_count)
    ELSE Some(0)

\* Series.dropna(): the cells that hold a value.
dropna(cells) == SelectSeq(cells, LAMBDA c : c # None)

\* Series.mean()
mean(xs) == <<SeqSum(xs), Len(xs)>>

WithDerived(rows) ==
    [i \in 1..Len(rows) |->
        rows[i] @@ [error_reduction |-> error_reduction(rows[i]),
                    error_reduction_percent |-> error_reduction_percent(rows[i])]]

Stats(table) ==
    [avg_diff |-> mean([i \in 1..Len(table) |-> table[i].error_reduction]),
     avg_percent_reduction |->
        LET kept == dropna([i \in 1..Len(table) |->
                               table[i].error_reduction_percent])
        IN  mean([i \in 1..Len(kept) |-> Val(kept[i])])]

(***************************************************************************)
(* src/benchmarking/run_nullaway.py: the staged sequential variant.        *)
(***************************************************************************)
SEQ_ARGV == {"", "summary", "clean", "full-clean", "help"}

\* A summary.csv an earlier run may have left behind.
EarlierSummary ==
    WithDerived(<<[benchmark |-> 1, initial_error_count |-> 1,
                   refactored_error_count |-> 0]>>)

InitSeq ==
    /\ script = "src/benchmarking/run_nullaway.py"
    /\ findings = PoolFindings
    /\ analyzed = NotAnalyzed
    /\ ParseIdle
    /\ CmdIdle
    /\ PoolIdle
    /\ sys_argv \in SEQ_ARGV
    /\ DATASETS_CACHE \in SUBSET (ARCHIVE \cup {ZIP})
    /\ DATASETS_REFACTORED \in {None, Some(RefactorAll(ARCHIVE))}
    /\ RESULTS \in {None, Some(NoSummary), Some([summary |-> Some(EarlierSummary)])}
    \* stage_zero of an earlier run (61-64) made both directories, or none did
    /\ SOURCES \in {None, Some({})}
    /\ COMPILED_CLASSES = SOURCES
    /\ pc = CASE sys_argv = "" -> "stage_zero"
              [] sys_argv = "help" -> "done"
              [] OTHER -> sys_argv
    /\ stages = <<>>
    /\ exit_code = IF sys_argv = "help" THEN Some(0) ELSE None
    /\ tool_failed = {}
    \* src/benchmarking/run_nullaway.py:54-56: an empty frame with the three columns
    /\ benchmark_results = Some(<<>>)
    /\ stats = None
    /\ path = ""
    /\ listing = <<>>
    /\ errors = <<>>
    /\ limit = None
    /\ datasets_list = <<>>
    /\ old_err_count = None
    /\ results = <<>>
    /\ jars = {}
    /\ old_runs = <<>>

\* An exit that reports success whatever the code.
Exit_Zero(code) == pc' = "exited" /\ exit_code' = Some(0)

\* sys.exit(code)
Exit(code) == pc' = "exited" /\ exit_code' = Some(code)

\* stage_zero (59-88)
stage_zero ==
    /\ script = "src/benchmarking/run_nullaway.py" /\ pc = "stage_zero"
    /\ stages' = Append(stages, "INIT")
    /\ SOURCES' = makedirs(SOURCES, {})
    /\ COMPILED_CLASSES' = makedirs(COMPILED_CLASSES, {})
    /\ RESULTS' = makedirs(RESULTS, NoSummary)
    /\ IF DATASETS_CACHE = {}
       THEN \E wget \in {0, 1} : \E unzip \in {0, 1} :
              CASE wget # 0 ->
                     /\ Exit(1) /\ tool_failed' = {"wget"}
                     /\ UNCHANGED DATASETS_CACHE
                [] wget = 0 /\ unzip # 0 ->
                     /\ Exit(1) /\ tool_failed' = {"unzip"}
                     /\ DATASETS_CACHE' = {ZIP}
                [] OTHER ->
                     /\ pc' = "stage_one"
                     /\ DATASETS_CACHE' = ARCHIVE
                     /\ UNCHANGED <<exit_code, tool_failed>>
       ELSE /\ pc' = "stage_one"
            /\ UNCHANGED <<DATASETS_CACHE, exit_code, tool_failed>>
    /\ UNCHANGED <<varsJar, varsEnv, varsParse, varsCmd, varsPool, varsSeq, varsBase,
                   DATASETS_REFACTORED, benchmark_results, stats>>

\* stage_one (91-94) up to the call run_benchmark(DATASETS_CACHE_FOLDER),
\* and the head of run_benchmark (174-176).
stage_one ==
    /\ script = "src/benchmarking/run_nullaway.py" /\ pc = "stage_one"
    /\ stages' = Append(stages, "ANALYZE_BEFORE")
    /\ path' = "cache"
    /\ errors' = <<>>
    /\ listing' \in Orderings(DATASETS_CACHE)
    /\ pc' = "run_benchmark"
    /\ UNCHANGED <<varsJar, varsEnv, varsParse, varsCmd, varsPool, varsFS, varsBase, sys_argv,
                   exit_code, tool_failed, benchmark_results, stats>>

\* One round of the loop of run_benchmark (176-234).  An entry that is no
\* directory is skipped.  For a directory the source list is written, the
\* javac command is built and printed, and then line 234, sys.exit(), ends
\* the process: lines 236-248 (the javac run, the count, the removal of
\* COMPILED_CLASSES_FOLDER) are never reached.
run_benchmark_loop ==
    /\ script = "src/benchmarking/run_nullaway.py" /\ pc = "run_benchmark"
    /\ listing # <<>>
    /\ LET benchmark == Head(listing) IN
       IF ~IsDir(benchmark)
       THEN /\ listing' = Tail(listing)
            /\ UNCHANGED <<SOURCES, pc, exit_code>>
       ELSE /\ SOURCES' = Some(Val(SOURCES) \cup {benchmark.name})
            /\ Exit(0)
            /\ UNCHANGED listing
    /\ UNCHANGED <<varsJar, varsEnv, varsParse, varsCmd, varsPool, varsBase, sys_argv, path,
                   errors, DATASETS_CACHE, DATASETS_REFACTORED, RESULTS,
                   COMPILED_CLASSES, stages, tool_failed, benchmark_results,
                   stats>>

\* run_benchmark returns errors; the rest of stage_one (95-106) or of
\* stage_three (130-134).
run_benchmark_return ==
    /\ script = "src/benchmarking/run_nullaway.py" /\ pc = "run_benchmark"
    /\ listing = <<>>
    /\ IF path = "cache"
       THEN /\ benchmark_results' =
                 Some([i \in 1..Len(errors) |->
                         [benchmark |-> errors[i][1],
                          initial_error_count |-> errors[i][2],
                          refactored_error_count |-> None]])
            /\ pc' = "stage_two"
       ELSE /\ benchmark_results' =
                 Some([i \in 1..Len(Val(benchmark_results)) |->
                         LET row == Val(benchmark_results)[i]
                             hit == SelectSeq(errors,
                                        LAMBDA e : e[1] = row.benchmark)
                         IN  IF hit = <<>> THEN row
                             ELSE [row EXCEPT !.refactored_error_count =
                                                  hit[Len(hit)][2]]])
            /\ pc' = "stage_four"
    /\ UNCHANGED <<varsJar, varsEnv, varsParse, varsCmd, varsPool, varsFS, varsSeq, varsBase,
                   stages, exit_code, tool_failed, stats>>

\* stage_two (109-122): the cache is copied and VGRTool run over the copy;
\* a failure of either ends the program with exit code 1.
stage_two ==
    /\ script = "src/benchmarking/run_nullaway.py" /\ pc = "stage_two"
    /\ stages' = Append(stages, "REFACTOR")
    /\ \E cp \in {0, 1} : \E gradlew \in {0, 1} :
         CASE cp # 0 ->
                /\ DATASETS_REFACTORED' = None
                /\ Exit(1) /\ tool_failed' = {"cp"}
           [] cp = 0 /\ gradlew # 0 ->
                /\ DATASETS_REFACTORED' = Some(DATASETS_CACHE)
                /\ Exit(1) /\ tool_failed' = {"gradlew"}
           [] OTHER ->
                /\ DATASETS_REFACTORED' = Some(RefactorAll(DATASETS_CACHE))
                /\ pc' = "stage_three"
                /\ UNCHANGED <<exit_code, tool_failed>>
    /\ UNCHANGED <<varsJar, varsEnv, varsParse, varsCmd, varsPool, varsSeq, varsBase,
                   DATASETS_CACHE, RESULTS, SOURCES, COMPILED_CLASSES,
                   benchmark_results, stats>>

\* stage_three (125-128) up to the call run_benchmark(DATASETS_REFACTORED_FOLDER)
stage_three ==
    /\ script = "src/benchmarking/run_nullaway.py" /\ pc = "stage_three"
    /\ stages' = Append(stages, "ANALYZE_AFTER")
    /\ path' = "refactored"
    /\ errors' = <<>>
    /\ listing' \in Orderings(Val(DATASETS_REFACTORED))
    /\ pc' = "run_benchmark"
    /\ UNCHANGED <<varsJar, varsEnv, varsParse, varsCmd, varsPool, varsFS, varsBase, sys_argv,
                   exit_code, tool_failed, benchmark_results, stats>>

\* stage_four (137-171).  pd.DataFrame([]) has no columns, so the frame of
\* a run that found no dataset raises KeyError: 'initial_error_count'.
stage_four ==
    /\ script = "src/benchmarking/run_nullaway.py" /\ pc = "stage_four"
    /\ stages' = Append(stages, "SUMMARIZE")
    /\ IF Val(benchmark_results) = <<>>
       THEN /\ pc' = "crashed" /\ exit_code' = Some(1)
            /\ UNCHANGED <<benchmark_results, stats, RESULTS>>
       ELSE LET table == WithDerived(Val(benchmark_results)) IN
            /\ benchmark_results' = Some(table)
            /\ stats' = Some(Stats(table))
            /\ RESULTS' = Some([summary |-> Some(table)])
            /\ pc' = "done" /\ exit_code' = Some(0)
    /\ UNCHANGED <<varsJar, varsEnv, varsParse, varsCmd, varsPool, varsSeq, varsBase,
                   DATASETS_CACHE, DATASETS_REFACTORED, SOURCES,
                   COMPILED_CLASSES, tool_failed>>

\* "summary" (258-272): the saved table is read and its means printed.
summary ==
    /\ script = "src/benchmarking/run_nullaway.py" /\ pc = "summary"
    /\ stats' = IF RESULTS # None /\ Val(RESULTS).summary # None
                THEN Some(Stats(Val(Val(RESULTS).summary)))
                ELSE None
    /\ pc' = "done" /\ exit_code' = Some(0)
    /\ UNCHANGED <<varsJar, varsEnv, varsParse, varsCmd, varsPool, varsFS, varsSeq, varsBase,
                   stages, tool_failed, benchmark_results>>

\* A clean that removes the whole datasets folder.
clean_RemovingCache ==
    /\ script = "src/benchmarking/run_nullaway.py" /\ pc = "clean"
    /\ DATASETS_REFACTORED' = None
    /\ DATASETS_CACHE' = {}
    /\ RESULTS' = None
    /\ SOURCES' = None
    /\ COMPILED_CLASSES' = None
    /\ pc' = "done" /\ exit_code' = Some(0)
    /\ UNCHANGED <<varsJar, varsEnv, varsParse, varsCmd, varsPool, varsSeq, varsBase,
                   stages, tool_failed, benchmark_results,
                   stats>>

\* "clean" (273-277)
clean ==
    /\ script = "src/benchmarking/run_nullaway.py" /\ pc = "clean"
    /\ DATASETS_REFACTORED' = None
    /\ RESULTS' = None
    /\ SOURCES' = None
    /\ COMPILED_CLASSES' = None
    /\ pc' = "done" /\ exit_code' = Some(0)
    /\ UNCHANGED <<varsJar, varsEnv, varsParse, varsCmd, varsPool, varsSeq, varsBase,
                   DATASETS_CACHE, stages, tool_failed, benchmark_results,
                   stats>>

\* "full-clean" (278-282): DATASETS_FOLDER holds the cache and the copy.
full_clean ==
    /\ script = "src/benchmarking/run_nullaway.py" /\ pc = "full-clean"
    /\ DATASETS_CACHE' = {}
    /\ DATASETS_REFACTORED' = None
    /\ RESULTS' = None
    /\ SOURCES' = None
    /\ COMPILED_CLASSES' = None
    /\ pc' = "done" /\ exit_code' = Some(0)
    /\ UNCHANGED <<varsJar, varsEnv, varsParse, varsCmd, varsPool, varsSeq, varsBase,
                   stages, tool_failed, benchmark_results, stats>>

NextSeq ==
    \/ stage_zero
    \/ stage_one
    \/ run_benchmark_loop
    \/ run_benchmark_return
    \/ stage_two
    \/ stage_three
    \/ stage_four
    \/ summary
    \/ clean
    \/ full_clean

SpecSeq == InitSeq /\ [][NextSeq]_vars

(***************************************************************************)
(* base_script.py: every dataset is annotated, analyzed, refactored and    *)
(* analyzed again before the next one is taken up.                         *)
(***************************************************************************)
\* What NullAway has to report on a dataset before and after VGRTool:
\* VGRTool removes every finding there was, or leaves all of them, or
\* brings findings into a dataset that had none.
FindingPairs ==
    {[before |-> b, after |-> 0] : b \in 0..MaxFindings} \cup
    {[before |-> b, after |-> MaxFindings] : b \in {0, MaxFindings}}

AllFindings == [Datasets -> FindingPairs]

\* base_script.py:369: the number of datasets of NJR-1.
MaxDatasetCount == 296

\* A check of --run that lets every integer pass.
valid_dataset_count_Any(n) == TRUE

\* valid_dataset_count (367-373): whether n is returned (TRUE) or
\* argparse.ArgumentTypeError raised (FALSE).
valid_dataset_count(n) == ~(n <= 0 \/ n > MaxDatasetCount)

\* The values of --run the command line is explored with.
RunArgs == {0} \cup (1..NumDatasets) \cup {MaxDatasetCount, MaxDatasetCount + 1}

InitBase ==
    /\ script = "src/benchmarking/base_script.py"
    /\ findings \in AllFindings
    /\ analyzed = NotAnalyzed
    /\ ParseIdle
    /\ CmdIdle
    /\ PoolIdle
    \* args.run as the command line gives it, before it is checked
    /\ limit \in {None} \cup {Some(n) : n \in RunArgs}
    /\ DATASETS_CACHE \in {{}, ARCHIVE}
    /\ DATASETS_REFACTORED \in {None, Some(RefactorAll(ARCHIVE))}
    /\ RESULTS = None
    /\ SOURCES = None
    /\ COMPILED_CLASSES = None
    /\ pc = "parse_args"
    /\ stages = <<>>
    /\ exit_code = None
    /\ tool_failed = {}
    /\ benchmark_results = None
    /\ stats = None
    /\ sys_argv = ""
    /\ path = ""
    /\ listing = <<>>
    /\ errors = <<>>
    /\ datasets_list = <<>>
    /\ old_err_count = None
    /\ results = <<>>
    /\ jars = {}
    /\ old_runs = <<>>

\* argparser.parse_args() and the choice of main (382-395).  A value of
\* --run that valid_dataset_count refuses makes argparse print its usage
\* and exit with status 2; `elif args.run` takes a value of 0 as no value.
parse_args ==
    /\ script = "src/benchmarking/base_script.py" /\ pc = "parse_args"
    /\ IF limit # None /\ ~valid_dataset_count(Val(limit))
       THEN Exit(2) /\ UNCHANGED limit
       ELSE /\ limit' = IF limit # None /\ Val(limit) = 0 THEN None ELSE limit
            /\ pc' = "initialize"
            /\ UNCHANGED exit_code
    /\ UNCHANGED <<varsJar, varsEnv, varsParse, varsCmd, varsPool, varsFS, varsSeq,
                   datasets_list, old_err_count, results, stages, tool_failed,
                   benchmark_results, stats>>

\* initialize (68-102).  The status of the final cp is not looked at.
initialize ==
    /\ script = "src/benchmarking/base_script.py" /\ pc = "initialize"
    /\ stages' = Append(stages, "INIT")
    /\ SOURCES' = makedirs(SOURCES, {})
    /\ RESULTS' = makedirs(RESULTS, NoSummary)
    /\ COMPILED_CLASSES' = makedirs(COMPILED_CLASSES, {})
    /\ \E wget \in {0, 1} : \E unzip \in {0, 1} : \E cp \in {0, 1} :
         CASE DATASETS_CACHE = {} /\ wget # 0 ->
                /\ Exit(1) /\ tool_failed' = {"wget"}
                /\ DATASETS_REFACTORED' = None
                /\ UNCHANGED DATASETS_CACHE
           [] DATASETS_CACHE = {} /\ wget = 0 /\ unzip # 0 ->
                /\ Exit(1) /\ tool_failed' = {"unzip"}
                /\ DATASETS_REFACTORED' = None
                /\ DATASETS_CACHE' = {ZIP}
           [] OTHER ->
                /\ DATASETS_CACHE' =
                     IF DATASETS_CACHE = {} THEN ARCHIVE ELSE DATASETS_CACHE
                /\ DATASETS_REFACTORED' =
                     IF cp = 0 THEN Some(DATASETS_CACHE') ELSE None
                /\ tool_failed' = IF cp # 0 THEN {"cp"} ELSE {}
                /\ pc' = "run"
                /\ UNCHANGED exit_code
    /\ UNCHANGED <<varsJar, varsEnv, varsParse, varsCmd, varsPool, varsSeq, varsBase,
                   benchmark_results, stats>>

\* list[:limit]
Truncate(list, lim) ==
    IF lim = None \/ Val(lim) >= Len(list) THEN list
    ELSE SubSeq(list, 1, Val(lim))

\* run (263-267): os.listdir(DATASETS_REFACTORED_DIR) raises
\* FileNotFoundError when the copy was not made.
run ==
    /\ script = "src/benchmarking/base_script.py" /\ pc = "run"
    /\ results' = <<>>
    /\ IF DATASETS_REFACTORED = None
       THEN /\ pc' = "crashed" /\ exit_code' = Some(1)
            /\ UNCHANGED datasets_list
       ELSE /\ \E order \in Orderings(Val(DATASETS_REFACTORED)) :
                 datasets_list' =
                     Truncate([i \in 1..Len(order) |-> order[i].name], limit)
            /\ pc' = IF datasets_list' = <<>> THEN "summarize" ELSE "annotate"
            /\ UNCHANGED exit_code
    /\ UNCHANGED <<varsJar, varsEnv, varsParse, varsCmd, varsPool, varsFS, varsSeq, limit,
                   old_err_count, stages, tool_failed, benchmark_results,
                   stats>>

dataset == Head(datasets_list)

KindOf(entries, d) == (CHOOSE e \in entries : e.name = d).kind

SetKind(entries, d, kind) ==
    {IF e.name = d THEN [e EXCEPT !.kind = kind] ELSE e : e \in entries}

\* annotate (169-217), with line 270.  The annotator adds its annotations
\* to the sources of the working copy; the builds it runs on its own are
\* left out.
annotate ==
    /\ script = "src/benchmarking/base_script.py" /\ pc = "annotate"
    /\ datasets_list # <<>>
    /\ SOURCES' = Some(Val(SOURCES) \cup {dataset})
    /\ \E returncode \in {0, 1} :
         /\ DATASETS_REFACTORED' =
              IF returncode = 0
              THEN Some(SetKind(Val(DATASETS_REFACTORED), dataset, "annotated"))
              ELSE DATASETS_REFACTORED
         /\ tool_failed' = IF returncode # 0
                            THEN tool_failed \cup {"annotator"}
                            ELSE tool_failed
    /\ pc' = "get_errors_old"
    /\ UNCHANGED <<varsJar, varsEnv, varsParse, varsCmd, varsPool, varsSeq, varsBase,
                   DATASETS_CACHE, RESULTS, COMPILED_CLASSES, stages,
                   exit_code, benchmark_results, stats>>

\* get_errors (220-239): javac builds the working copy of the dataset into
\* COMPILED_CLASSES_DIR, its output goes to the log (under a shell that
\* takes "&>" as a redirection of both streams), the log is searched.
\* The count is get_errors' return value; nothing removes the classes.
get_errors(d, count) ==
    /\ SOURCES' = Some(Val(SOURCES) \cup {d})
    /\ LET k == NullAwayFindings(d, KindOf(Val(DATASETS_REFACTORED), d)) IN
       /\ javac(d, "refactored",
                IF pc = "get_errors_old" THEN "before" ELSE "after", Some(k))
       /\ count = Len(re_findall(ERROR_PATTERN, StderrText(k)))
       /\ \E status \in (IF k = 0 THEN {0, 1} ELSE {1}) :
            COMPILED_CLASSES' =
                IF status = 0
                THEN Some(Val(makedirs(COMPILED_CLASSES, {})) \cup {d})
                ELSE COMPILED_CLASSES

\* run, line 273: old_err_count = get_errors(dataset, True)
get_errors_old ==
    /\ script = "src/benchmarking/base_script.py" /\ pc = "get_errors_old"
    /\ stages' = Append(stages, "ANALYZE_BEFORE")
    /\ \E count \in 0..MaxFindings :
         /\ get_errors(dataset, count)
         /\ old_err_count' = Some(count)
    /\ pc' = "refactor"
    /\ UNCHANGED <<varsJar, script, findings, varsParse, varsCmd, varsPool, varsSeq, limit,
                   datasets_list, results, DATASETS_CACHE,
                   DATASETS_REFACTORED, RESULTS, exit_code, tool_failed,
                   benchmark_results, stats>>

\* A refactoring that is pointed at the dataset in the cache.
refactor_InCache ==
    /\ script = "src/benchmarking/base_script.py" /\ pc = "refactor"
    /\ stages' = Append(stages, "REFACTOR")
    /\ \E res \in {0, 1} :
         /\ DATASETS_CACHE' =
              IF res = 0
              THEN SetKind(DATASETS_CACHE, dataset, "refactored")
              ELSE DATASETS_CACHE
         /\ tool_failed' = IF res # 0
                            THEN tool_failed \cup {"gradlew"}
                            ELSE tool_failed
    /\ pc' = "get_errors_new"
    /\ UNCHANGED <<varsJar, varsEnv, varsParse, varsCmd, varsPool, varsSeq, varsBase,
                   DATASETS_REFACTORED, RESULTS, SOURCES,
                   COMPILED_CLASSES,
                   exit_code, benchmark_results, stats>>

\* refactor (242-255): a non-zero status of the tool is printed, no more.
refactor ==
    /\ script = "src/benchmarking/base_script.py" /\ pc = "refactor"
    /\ stages' = Append(stages, "REFACTOR")
    /\ \E res \in {0, 1} :
         /\ DATASETS_REFACTORED' =
              IF res = 0
              THEN Some(SetKind(Val(DATASETS_REFACTORED), dataset, "refactored"))
              ELSE DATASETS_REFACTORED
         /\ tool_failed' = IF res # 0
                            THEN tool_failed \cup {"gradlew"}
                            ELSE tool_failed
    /\ pc' = "get_errors_new"
    /\ UNCHANGED <<varsJar, varsEnv, varsParse, varsCmd, varsPool, varsSeq, varsBase,
                   DATASETS_CACHE, RESULTS, SOURCES, COMPILED_CLASSES,
                   exit_code, benchmark_results, stats>>

\* run, lines 276-284: new_err_count = get_errors(dataset); results.append
get_errors_new ==
    /\ script = "src/benchmarking/base_script.py" /\ pc = "get_errors_new"
    /\ stages' = Append(stages, "ANALYZE_AFTER")
    /\ \E new_err_count \in 0..MaxFindings :
         /\ get_errors(dataset, new_err_count)
         /\ results' = Append(results,
                          [benchmark |-> dataset,
                           initial_error_count |-> Val(old_err_count),
                           refactored_error_count |-> new_err_count])
    /\ datasets_list' = Tail(datasets_list)
    /\ pc' = IF Tail(datasets_list) = <<>> THEN "summarize" ELSE "annotate"
    /\ UNCHANGED <<varsJar, script, findings, varsParse, varsCmd, varsPool, varsSeq, limit,
                   old_err_count, DATASETS_CACHE, DATASETS_REFACTORED,
                   RESULTS, exit_code, tool_failed, benchmark_results, stats>>

\* summarize(results) (322-355)
base_summarize ==
    /\ script = "src/benchmarking/base_script.py" /\ pc = "summarize"
    /\ stages' = Append(stages, "SUMMARIZE")
    /\ IF results = <<>>
       THEN \* pd.DataFrame([]) has no column initial_error_count: KeyError
            /\ pc' = "crashed" /\ exit_code' = Some(1)
            /\ UNCHANGED <<benchmark_results, stats, RESULTS>>
       ELSE LET table == WithDerived(results) IN
            /\ benchmark_results' = Some(table)
            /\ stats' = Some(Stats(table))
            /\ RESULTS' = Some([summary |-> Some(table)])
            /\ pc' = "done" /\ exit_code' = Some(0)
    /\ UNCHANGED <<varsJar, varsEnv, varsParse, varsCmd, varsPool, varsSeq, varsBase,
                   DATASETS_CACHE, DATASETS_REFACTORED, SOURCES,
                   COMPILED_CLASSES, tool_failed>>

NextBase ==
    \/ parse_args
    \/ initialize
    \/ run
    \/ annotate
    \/ get_errors_old
    \/ refactor
    \/ get_errors_new
    \/ base_summarize

SpecBase == InitBase /\ [][NextBase]_vars

(***************************************************************************)
(* src/benchmarking/run_benchmark.py: the variant that saves the working   *)
(* copy of an earlier run and verifies the processor jars.                 *)
(***************************************************************************)
\* PROCESSOR_JARS (31-60): the PATH of every entry, in order.
PROCESSOR_JARS ==
    <<"errorprone/error_prone_core-2.38.0-with-dependencies.jar",
      "errorprone/dataflow-errorprone-3.49.3-eisop1.jar",
      "errorprone/jFormatString-3.0.0.jar",
      "nullaway/nullaway-0.12.7.jar",
      "nullaway/dataflow-nullaway-3.49.5.jar",
      "nullaway/checker-qual-3.49.2.jar",
      "annotator/annotator-core-1.3.15.jar">>

\* The jars found in place when the script starts: all of them, or all but
\* some that leave a gap.
JarsAtStart ==
    {Range(PROCESSOR_JARS) \ gone :
        gone \in {{}, {PROCESSOR_JARS[1]}, {PROCESSOR_JARS[4]},
                  {PROCESSOR_JARS[4], PROCESSOR_JARS[7]},
                  Range(PROCESSOR_JARS)}}

InitJars ==
    /\ script = "src/benchmarking/run_benchmark.py"
    /\ findings = PoolFindings
    /\ analyzed = NotAnalyzed
    /\ ParseIdle
    /\ CmdIdle
    /\ PoolIdle
    /\ DATASETS_CACHE \in {{}, ARCHIVE}
    /\ DATASETS_REFACTORED \in {None, Some(RefactorAll(ARCHIVE))}
    /\ RESULTS = None
    /\ SOURCES = None
    /\ COMPILED_CLASSES = None
    /\ pc = "stage_zero"
    /\ stages = <<>>
    /\ exit_code = None
    /\ tool_failed = {}
    /\ benchmark_results = None
    /\ stats = None
    /\ sys_argv = ""
    /\ path = ""
    /\ listing = <<>>
    /\ errors = <<>>
    /\ limit = None
    /\ datasets_list = <<>>
    /\ old_err_count = None
    /\ results = <<>>
    /\ jars \in JarsAtStart
    /\ old_runs = <<>>

\* The jars in place after the loop at 143-155 when the download of the
\* missing jar number failed fails (0: no download fails).
Verified(failed) ==
    jars \cup {PROCESSOR_JARS[i] : i \in
                  {j \in DOMAIN PROCESSOR_JARS :
                      /\ PROCESSOR_JARS[j] \notin jars
                      /\ failed = 0 \/ j < failed}}

\* stage_zero (90-157) when a working copy of an earlier run exists: it is
\* moved to the save directory, or the move fails and that is printed;
\* then line 102, outside the except clause, ends the program.
stage_zero_save ==
    /\ script = "src/benchmarking/run_benchmark.py" /\ pc = "stage_zero"
    /\ DATASETS_REFACTORED # None
    /\ stages' = Append(stages, "INIT")
    /\ \E moved \in BOOLEAN :
         IF moved
         THEN /\ old_runs' = Append(old_runs, Val(DATASETS_REFACTORED))
              /\ DATASETS_REFACTORED' = None
              /\ UNCHANGED tool_failed
         ELSE /\ tool_failed' = {"move"}
              /\ UNCHANGED <<old_runs, DATASETS_REFACTORED>>
    /\ Exit(1)
    /\ UNCHANGED <<varsEnv, varsParse, varsCmd, varsPool, varsSeq, varsBase, jars,
                   DATASETS_CACHE, RESULTS, SOURCES, COMPILED_CLASSES,
                   benchmark_results, stats>>

\* stage_zero (90-157) when there is no working copy: the directories are
\* made, the datasets fetched into an empty cache, the cache copied, the
\* missing jars fetched; the first failure ends the program with status 1.
stage_zero_init ==
    /\ script = "src/benchmarking/run_benchmark.py" /\ pc = "stage_zero"
    /\ DATASETS_REFACTORED = None
    /\ stages' = Append(stages, "INIT")
    /\ SOURCES' = makedirs(SOURCES, {})
    /\ RESULTS' = makedirs(RESULTS, NoSummary)
    /\ COMPILED_CLASSES' = makedirs(COMPILED_CLASSES, {})
    /\ \E wget \in {0, 1} : \E unzip \in {0, 1} : \E cp \in {0, 1} :
       \E failed \in {0} \cup {j \in DOMAIN PROCESSOR_JARS :
                                  PROCESSOR_JARS[j] \notin jars} :
         CASE DATASETS_CACHE = {} /\ wget # 0 ->
                /\ Exit(1) /\ tool_failed' = {"wget"}
                /\ UNCHANGED <<DATASETS_CACHE, DATASETS_REFACTORED, jars>>
           [] DATASETS_CACHE = {} /\ wget = 0 /\ unzip # 0 ->
                /\ Exit(1) /\ tool_failed' = {"unzip"}
                /\ DATASETS_CACHE' = {ZIP}
                /\ UNCHANGED <<DATASETS_REFACTORED, jars>>
           [] OTHER ->
                /\ DATASETS_CACHE' =
                     IF DATASETS_CACHE = {} THEN ARCHIVE ELSE DATASETS_CACHE
                /\ IF cp # 0
                   THEN /\ Exit(1) /\ tool_failed' = {"cp"}
                        /\ UNCHANGED <<DATASETS_REFACTORED, jars>>
                   ELSE /\ DATASETS_REFACTORED' = Some(DATASETS_CACHE')
                        /\ jars' = Verified(failed)
                        /\ IF failed # 0
                           THEN Exit(1) /\ tool_failed' = {"wget jar"}
                           ELSE /\ pc' = "stage_one"
                                /\ UNCHANGED <<exit_code, tool_failed>>
    /\ UNCHANGED <<varsEnv, varsParse, varsCmd, varsPool, varsSeq, varsBase, old_runs,
                   benchmark_results, stats>>

\* stage_one (160-166): the working copy is listed.  With nothing listed
\* the loop is skipped and line 192 reads a name that was never bound.
stage_one_listdir ==
    /\ script = "src/benchmarking/run_benchmark.py" /\ pc = "stage_one"
    /\ \E order \in Orderings(Val(DATASETS_REFACTORED)) :
         datasets_list' = [i \in 1..Len(order) |-> order[i].name]
    /\ IF datasets_list' = <<>>
       THEN pc' = "crashed" /\ exit_code' = Some(1)
       ELSE pc' = "stage_one_annotate" /\ UNCHANGED exit_code
    /\ UNCHANGED <<varsEnv, varsParse, varsCmd, varsPool, varsFS, varsSeq, varsJar,
                   limit, old_err_count, results, stages, tool_failed,
                   benchmark_results, stats>>

\* stage_one_annotate (206-269), with line 168
stage_one_annotate ==
    /\ script = "src/benchmarking/run_benchmark.py"
    /\ pc = "stage_one_annotate"
    /\ SOURCES' = Some(Val(SOURCES) \cup {dataset})
    /\ \E returncode \in {0, 1} :
         /\ DATASETS_REFACTORED' =
              IF returncode = 0
              THEN Some(SetKind(Val(DATASETS_REFACTORED), dataset, "annotated"))
              ELSE DATASETS_REFACTORED
         /\ tool_failed' = IF returncode # 0
                            THEN tool_failed \cup {"annotator"}
                            ELSE tool_failed
    /\ pc' = "stage_one_count_errors_old"
    /\ UNCHANGED <<varsEnv, varsParse, varsCmd, varsPool, varsSeq, varsBase, varsJar,
                   DATASETS_CACHE, RESULTS, COMPILED_CLASSES, stages,
                   exit_code, benchmark_results, stats>>

\* stage_one_count_errors (301-331).  build_cmd is one string and is run
\* without a shell: where the string is taken as the name of the program
\* (POSIX) subprocess.run raises FileNotFoundError; where it is split into
\* arguments javac runs, and res, a CompletedProcess, is unequal to 0
\* whatever its returncode, so that the function returns None at 320.
\* The value returned is None in every case that returns.
stage_one_count_errors(d, phase) ==
    /\ SOURCES' = Some(Val(SOURCES) \cup {d})
    /\ \E started \in BOOLEAN :
         IF started
         THEN /\ LET k == NullAwayFindings(d, KindOf(Val(DATASETS_REFACTORED), d))
                 IN  /\ javac(d, "refactored", phase, Some(k))
                     /\ \E status \in (IF k = 0 THEN {0, 1} ELSE {1}) :
                       COMPILED_CLASSES' =
                           IF status = 0
                           THEN Some(Val(COMPILED_CLASSES) \cup {d})
                           ELSE COMPILED_CLASSES
              /\ UNCHANGED exit_code
         ELSE /\ pc' = "crashed" /\ exit_code' = Some(1)
              /\ UNCHANGED <<analyzed, COMPILED_CLASSES>>

\* stage_one, line 174: old_err_count = stage_one_count_errors(dataset)
stage_one_count_errors_old ==
    /\ script = "src/benchmarking/run_benchmark.py"
    /\ pc = "stage_one_count_errors_old"
    /\ stages' = Append(stages, "ANALYZE_BEFORE")
    /\ stage_one_count_errors(dataset, "before")
    /\ old_err_count' = None
    /\ exit_code' = None => pc' = "stage_one_refactor"
    /\ UNCHANGED <<script, findings, varsParse, varsCmd, varsPool, varsSeq, varsJar,
                   limit, datasets_list, results, DATASETS_CACHE,
                   DATASETS_REFACTORED, RESULTS, tool_failed,
                   benchmark_results, stats>>

\* stage_one_refactor (272-298): res is a CompletedProcess, the message of
\* 289-292 is printed after every run of VGRTool.
stage_one_refactor ==
    /\ script = "src/benchmarking/run_benchmark.py"
    /\ pc = "stage_one_refactor"
    /\ stages' = Append(stages, "REFACTOR")
    /\ \E returncode \in {0, 1} :
         /\ DATASETS_REFACTORED' =
              IF returncode = 0
              THEN Some(SetKind(Val(DATASETS_REFACTORED), dataset, "refactored"))
              ELSE DATASETS_REFACTORED
         /\ tool_failed' = IF returncode # 0
                            THEN tool_failed \cup {"gradlew"}
                            ELSE tool_failed
    /\ pc' = "stage_one_count_errors_new"
    /\ UNCHANGED <<varsEnv, varsParse, varsCmd, varsPool, varsSeq, varsBase, varsJar,
                   DATASETS_CACHE, RESULTS, SOURCES, COMPILED_CLASSES,
                   exit_code, benchmark_results, stats>>

\* stage_one, lines 180-191: new_err_count = stage_one_count_errors(dataset)
\* and results.append
stage_one_count_errors_new ==
    /\ script = "src/benchmarking/run_benchmark.py"
    /\ pc = "stage_one_count_errors_new"
    /\ stages' = Append(stages, "ANALYZE_AFTER")
    /\ stage_one_count_errors(dataset, "after")
    /\ IF exit_code' = None
       THEN /\ results' = Append(results,
                             [benchmark |-> dataset,
                              initial_error_count |-> old_err_count,
                              refactored_error_count |-> None])
            /\ datasets_list' = Tail(datasets_list)
            /\ pc' = IF Tail(datasets_list) = <<>>
                     THEN "stage_one_save_results_to_csv"
                     ELSE "stage_one_annotate"
       ELSE UNCHANGED <<results, datasets_list>>
    /\ UNCHANGED <<script, findings, varsParse, varsCmd, varsPool, varsSeq, varsJar,
                   limit, old_err_count, DATASETS_CACHE, DATASETS_REFACTORED,
                   RESULTS, tool_failed, benchmark_results, stats>>

\* stage_one, lines 192-200, and stage_one_save_results_to_csv (404-416):
\* the results are printed; the working copy is moved to the save
\* directory; no file is written.
stage_one_save_results_to_csv ==
    /\ script = "src/benchmarking/run_benchmark.py"
    /\ pc = "stage_one_save_results_to_csv"
    /\ \E moved \in BOOLEAN :
         IF moved
         THEN /\ old_runs' = Append(old_runs, Val(DATASETS_REFACTORED))
              /\ DATASETS_REFACTORED' = None
              /\ pc' = "done" /\ exit_code' = Some(0)
              /\ UNCHANGED tool_failed
         ELSE /\ Exit(1)
              /\ tool_failed' = tool_failed \cup {"move"}
              /\ UNCHANGED <<old_runs, DATASETS_REFACTORED>>
    /\ UNCHANGED <<varsEnv, varsParse, varsCmd, varsPool, varsSeq, varsBase, jars,
                   DATASETS_CACHE, RESULTS, SOURCES, COMPILED_CLASSES,
                   stages, benchmark_results, stats>>

NextJars ==
    \/ stage_zero_save
    \/ stage_zero_init
    \/ stage_one_listdir
    \/ stage_one_annotate
    \/ stage_one_count_errors_old
    \/ stage_one_refactor
    \/ stage_one_count_errors_new
    \/ stage_one_save_results_to_csv

SpecJars == InitJars /\ [][NextJars]_vars

(***************************************************************************)
(* The command builder: the package list the find pipeline of              *)
(* get_plugin_options prints for a dataset, and the javac command          *)
(* get_build_cmd puts together.  A str is a sequence of the pieces it is   *)
(* concatenated from; text the shell tools work on is kept character by    *)
(* character.                                                              *)
(***************************************************************************)
MaxSourceLines == 3

KEYWORD == <<"p","a","c","k","a","g","e">>

\* The lines the source files are explored with: two package declarations,
\* a comment, and the keyword with no name behind it.
SOURCE_LINES ==
    { KEYWORD \o <<" ","a",";">>,
      KEYWORD \o <<" ","b",";">>,
      <<"/","/"," ","c">>,
      KEYWORD }

\* The list flat cut into files behind the positions in cuts.
Files(flat, cuts) ==
    LET ends     == cuts \cup {Len(flat)}
        start(e) == IF \E c \in ends : c < e
                    THEN 1 + CHOOSE c \in ends :
                                 c < e /\ \A b \in ends : b < e => b <= c
                    ELSE 1
        nth(k)   == CHOOSE e \in ends :
                        Cardinality({b \in ends : b < e}) = k - 1
    IN  [k \in 1..Cardinality(ends) |-> SubSeq(flat, start(nth(k)), nth(k))]

\* Every dataset of non-empty source files with at most n lines in all, the
\* files in the order find hands them to awk.
SourceTrees(n) ==
    {<<>>} \cup
    UNION {{Files(flat, cuts) : flat \in [1..k -> SOURCE_LINES],
                                cuts \in SUBSET (1..(k - 1))} : k \in 1..n}

\* str.startswith / the regular expression /^prefix/
startswith(s, prefix) ==
    Len(prefix) <= Len(s) /\ SubSeq(s, 1, Len(prefix)) = prefix

BLANK == {" ", "\t"}

\* awk's default field splitting: the maximal runs of non-blank characters.
RECURSIVE Fields(_)
Fields(line) ==
    IF line = <<>> THEN <<>>
    ELSE IF Head(line) \in BLANK THEN Fields(Tail(line))
    ELSE LET stop == IF \E i \in 1..Len(line) : line[i] \in BLANK
                     THEN CHOOSE i \in 1..Len(line) :
                              /\ line[i] \in BLANK
                              /\ \A j \in 1..(i - 1) : line[j] \notin BLANK
                     ELSE Len(line) + 1
         IN  <<SubSeq(line, 1, stop - 1)>>
                 \o Fields(SubSeq(line, stop, Len(line)))

\* awk's $k: the k-th field, empty when the line has fewer fields.
Field(line, k) == IF k <= Len(Fields(line)) THEN Fields(line)[k] ELSE <<>>

\* awk 'FNR==1 && /^package/ {print $2}' over the files: for every file
\* whose line number 1 begins with "package", the second field of that line.
RECURSIVE awk(_)
awk(files) ==
    IF files = <<>> THEN <<>>
    ELSE (IF Head(files) # <<>> /\ startswith(Head(files)[1], KEYWORD)
          THEN <<Field(Head(files)[1], 2)>>
          ELSE <<>>) \o awk(Tail(files))

\* The first position of sub in s, 0 when there is none.
find(s, sub) ==
    LET hits == {i \in 1..(Len(s) - Len(sub) + 1) :
                    SubSeq(s, i, i + Len(sub) - 1) = sub}
    IN  IF hits = {} THEN 0
        ELSE CHOOSE i \in hits : \A j \in hits : i <= j

\* sed 's/pat/rep/' on one line: the first occurrence is replaced.
sed_s(s, pat, rep) ==
    LET i == find(s, pat)
    IN  IF i = 0 THEN s
        ELSE SubSeq(s, 1, i - 1) \o rep \o SubSeq(s, i + Len(pat), Len(s))

\* sed 's/pat/rep/g' on one line: every occurrence, the scan going on
\* behind each replacement.
RECURSIVE sed_s_g(_, _, _)
sed_s_g(s, pat, rep) ==
    LET i == find(s, pat)
    IN  IF i = 0 THEN s
        ELSE SubSeq(s, 1, i - 1) \o rep
                 \o sed_s_g(SubSeq(s, i + Len(pat), Len(s)), pat, rep)

\* sed 's/,$//' on one line: a comma at the end of the line is removed.
sed_s_end(s) ==
    IF s # <<>> /\ s[Len(s)] = "," THEN SubSeq(s, 1, Len(s) - 1) ELSE s

\* The characters of the explored texts in ascending byte order.
BYTES == <<"\t", "\n", " ", ",", "/", ";", "a", "b", "c", "e", "g", "k", "p">>

Ord(c) == CHOOSE i \in DOMAIN BYTES : BYTES[i] = c

\* a sorts before b, byte by byte; a proper prefix sorts first.
LexLess(a, b) ==
    \E i \in 1..(Len(b)) :
        /\ i <= Len(a) + 1
        /\ \A j \in 1..(i - 1) : a[j] = b[j]
        /\ i = Len(a) + 1 \/ Ord(a[i]) < Ord(b[i])

\* sort -u: the different lines in ascending order.
sort_u(lines) ==
    LET S == Range(lines)
    IN  [k \in 1..Cardinality(S) |->
            CHOOSE l \in S : Cardinality({m \in S : LexLess(m, l)}) = k - 1]

\* What a tool writes for a list of lines: every line with its newline.
unlines(lines) == Flatten([i \in 1..Len(lines) |-> lines[i] \o <<"\n">>])

\* tr 'set' 'to': every character of set becomes to.
tr(text, set, to) ==
    [i \in 1..Len(text) |-> IF text[i] \in set THEN to ELSE text[i]]

\* str.join(sep, list)
str_join(sep, list) ==
    Flatten([i \in 1..Len(list) |->
                IF i = 1 THEN list[i] ELSE <<sep>> \o list[i]])

\* paste -sd, : the lines joined by commas into one line.
paste_sd(lines) ==
    IF lines = <<>> THEN <<>> ELSE str_join(",", lines) \o <<"\n">>

WHITESPACE == {" ", "\t", "\n", "\r"}

\* str.strip()
RECURSIVE strip(_)
strip(s) ==
    IF s = <<>> THEN s
    ELSE IF Head(s) \in WHITESPACE THEN strip(Tail(s))
    ELSE IF s[Len(s)] \in WHITESPACE THEN strip(SubSeq(s, 1, Len(s) - 1))
    ELSE s

\* find_pkgs_command of get_plugin_options (base_script.py:120-123,
\* src/benchmarking/run_benchmark.py:381-384): awk | sed 's/;//' | sort -u |
\* tr '\n\r' ',' | sed 's/,,/,/g' | sed 's/,$//'
find_pkgs_command(files) ==
    LET printed  == awk(files)
        stripped == [i \in 1..Len(printed) |-> sed_s(printed[i], <<";">>, <<>>)]
        joined   == tr(unlines(sort_u(stripped)), {"\n", "\r"}, ",")
    IN  sed_s_end(sed_s_g(joined, <<",", ",">>, <<",">>))

\* find_pkgs_command of run_benchmark (src/benchmarking/run_nullaway.py:
\* 190-193): awk | sed 's/;//' | sort -u | paste -sd,
find_pkgs_command_paste(files) ==
    LET printed  == awk(files)
        stripped == [i \in 1..Len(printed) |-> sed_s(printed[i], <<";">>, <<>>)]
    IN  paste_sd(sort_u(stripped))

\* ERROR_PRONE_EXPORTS (base_script.py:50-61,
\* src/benchmarking/run_benchmark.py:70-81), one argument each.
ERROR_PRONE_EXPORTS ==
    << <<"-J--add-exports=jdk.compiler/com.sun.tools.javac.api=ALL-UNNAMED">>,
       <<"-J--add-exports=jdk.compiler/com.sun.tools.javac.file=ALL-UNNAMED">>,
       <<"-J--add-exports=jdk.compiler/com.sun.tools.javac.main=ALL-UNNAMED">>,
       <<"-J--add-exports=jdk.compiler/com.sun.tools.javac.model=ALL-UNNAMED">>,
       <<"-J--add-exports=jdk.compiler/com.sun.tools.javac.parser=ALL-UNNAMED">>,
       <<"-J--add-exports=jdk.compiler/com.sun.tools.javac.processing=ALL-UNNAMED">>,
       <<"-J--add-exports=jdk.compiler/com.sun.tools.javac.tree=ALL-UNNAMED">>,
       <<"-J--add-exports=jdk.compiler/com.sun.tools.javac.util=ALL-UNNAMED">>,
       <<"-J--add-opens=jdk.compiler/com.sun.tools.javac.code=ALL-UNNAMED">>,
       <<"-J--add-opens=jdk.compiler/com.sun.tools.javac.comp=ALL-UNNAMED">> >>

\* The list base_script.py joins at 32-42, paths below JARS_DIR.
base_PROCESSOR_JAR_LIST ==
    <<"errorprone/error_prone_core-2.38.0-with-dependencies.jar",
      "errorprone/errorprone/dataflow-errorprone-3.49.3-eisop1.jar",
      "errorprone/errorprone/jFormatString-3.0.0.jar",
      "nullaway/nullaway-0.12.7.jar",
      "nullaway/dataflow-nullaway-3.49.5.jar",
      "nullaway/checker-qual-3.49.2.jar",
      "annotator/annotator-core-1.3.15.jar">>

\* A list of str as a list of one-piece strings.
Strs(list) == [i \in DOMAIN list |-> <<list[i]>>]

\* base_script.py:32-42  PROCESSOR_JARS = ":".join([...])
base_PROCESSOR_JARS == str_join(":", Strs(base_PROCESSOR_JAR_LIST))

\* The DOWNLOAD_URL of every entry of PROCESSOR_JARS
\* (src/benchmarking/run_benchmark.py:31-60), below repo1.maven.org/maven2.
DOWNLOAD_URL ==
    <<"com/google/errorprone/error_prone_core/2.38.0/error_prone_core-2.38.0.jar",
      "io/github/eisop/dataflow-errorprone/3.49.3-eisop1/dataflow-errorprone-3.49.3-eisop1.jar",
      "com/google/code/findbugs/jFormatString/3.0.0/jFormatString-3.0.0.jar",
      "com/uber/nullaway/nullaway/0.12.7/nullaway-0.12.7.jar",
      "org/checkerframework/dataflow-nullaway/3.49.5/dataflow-nullaway-3.49.5.jar",
      "org/checkerframework/checker-qual/3.49.2/checker-qual-3.49.2.jar",
      "edu/ucr/cs/riple/annotator/annotator-core/1.3.15/annotator-core-1.3.15.jar">>

\* src/benchmarking/run_benchmark.py:61  PROCESSOR_JAR_PATHS
PROCESSOR_JAR_PATHS == str_join(":", Strs(PROCESSOR_JARS))

\* format(list): what an f-string makes of the list of dicts PROCESSOR_JARS,
\* "[{'PATH': '...', 'DOWNLOAD_URL': '...'}, ...]".
format_PROCESSOR_JARS ==
    <<"[">> \o
    str_join(", ", [i \in DOMAIN PROCESSOR_JARS |->
                       <<"{'PATH': '", PROCESSOR_JARS[i],
                         "', 'DOWNLOAD_URL': '", DOWNLOAD_URL[i], "'}">>])
    \o <<"]">>

\* JARS (src/benchmarking/run_nullaway.py:33-42), paths below JAR_FOLDER.
JARS ==
    str_join(":", Strs(<<"errorprone/error_prone_core-2.38.0-with-dependencies.jar",
                         "errorprone/dataflow-errorprone-3.49.3-eisop1.jar",
                         "errorprone/jFormatString-3.0.0.jar",
                         "nullaway/nullaway-0.12.7.jar",
                         "nullaway/dataflow-nullaway-3.49.5.jar",
                         "nullaway/checker-qual-3.49.2.jar">>))

\* get_plugin_options, the string returned (base_script.py:128-140,
\* src/benchmarking/run_benchmark.py:390-401) for the stripped list pkgs;
\* the blanks of the continuation lines are written as one blank.
get_plugin_options(pkgs) ==
    <<"-Xplugin:ErrorProne -XepDisableAllChecks -Xep:AnnotatorScanner:ERROR ",
      "-XepOpt:AnnotatorScanner:ConfigPath=SCANNER_CONFIG -Xep:NullAway:ERROR ",
      "-XepOpt:NullAway:SerializeFixMetadata=true ",
      "-XepOpt:NullAway:FixSerializationConfigPath=NULLAWAY_CONFIG ",
      "-XepOpt:NullAway:AnnotatedPackages=">> \o pkgs

\* get_build_cmd (base_script.py:143-166,
\* src/benchmarking/run_benchmark.py:334-360); processor_jars is what
\* f"{PROCESSOR_JARS}" gives in the script.
get_build_cmd(processor_jars, plugin_options) ==
    << <<"javac">> >> \o ERROR_PRONE_EXPORTS \o
    << <<"-d">>, <<"COMPILED_CLASSES_DIR">>,
       <<"-cp">>, <<"DATASETS_REFACTORED_DIR", "/", "dataset", "/lib", ":",
                    "ANNOTATOR_JAR">>,
       <<"-XDcompilePolicy=simple">>,
       <<"--should-stop=ifError=FLOW">>,
       <<"-processorpath">>, processor_jars,
       <<"'">> \o plugin_options \o <<"'">>,
       <<"-Xmaxerrs">>, <<"0">>, <<"-Xmaxwarns">>, <<"0">>,
       <<"@", "SRC_DIR", "/", "dataset", ".txt">> >>

\* The command of run_benchmark (src/benchmarking/run_nullaway.py:213-232).
command(pkgs) ==
    << <<"timeout">>, <<"1800">>, <<"javac">> >> \o ERROR_PRONE_EXPORTS \o
    << <<"-d">>, <<"COMPILED_CLASSES_FOLDER">>,
       <<"-cp">>, <<"path", "/", "benchmark", "/lib">>,
       <<"-XDcompilePolicy=simple">>,
       <<"--should-stop=ifError=FLOW">>,
       <<"-processorpath">>, JARS,
       <<"-Xplugin:ErrorProne ", "-XepOpt:NullAway:AnnotatedPackages=">>
           \o pkgs \o <<" -XepDisableAllChecks -Xep:NullAway:ERROR">>,
       <<"-Xmaxerrs">>, <<"0">>, <<"-Xmaxwarns">>, <<"0">>,
       <<"@", "SRC_FOLDER", "/", "benchmark", ".txt">> >>

CMD_SCRIPTS ==
    {"src/benchmarking/base_script.py", "src/benchmarking/run_benchmark.py",
     "src/benchmarking/run_nullaway.py"}

InitCmd ==
    /\ script = "command builder"
    /\ cmd_of \in CMD_SCRIPTS
    /\ java_files \in SourceTrees(MaxSourceLines)
    /\ annotated_pkgs = None
    /\ build_cmd = None
    /\ findings = [d \in Datasets |-> [before |-> 0, after |-> 0]]
    /\ analyzed = NotAnalyzed
    /\ ParseIdle
    /\ PoolIdle
    /\ SequentialIdle

\* get_plugin_options up to annotated_pkgs = pkgs.strip()
\* (base_script.py:118-127, src/benchmarking/run_benchmark.py:376-391)
GetPluginOptions ==
    /\ script = "command builder"
    /\ cmd_of \in {"src/benchmarking/base_script.py",
                   "src/benchmarking/run_benchmark.py"}
    /\ annotated_pkgs = None
    /\ annotated_pkgs' = Some(strip(find_pkgs_command(java_files)))
    /\ UNCHANGED <<varsEnv, varsParse, varsPool, varsSequential, cmd_of,
                   java_files, build_cmd>>

\* get_build_cmd with the options of get_plugin_options.  base_script.py
\* formats the str PROCESSOR_JARS, src/benchmarking/run_benchmark.py the
\* list of dicts of that name (352).
GetBuildCmd ==
    /\ script = "command builder"
    /\ cmd_of \in {"src/benchmarking/base_script.py",
                   "src/benchmarking/run_benchmark.py"}
    /\ annotated_pkgs # None /\ build_cmd = None
    /\ build_cmd' =
         Some(get_build_cmd(IF cmd_of = "src/benchmarking/base_script.py"
                            THEN base_PROCESSOR_JARS
                            ELSE format_PROCESSOR_JARS,
                            get_plugin_options(Val(annotated_pkgs))))
    /\ UNCHANGED <<varsEnv, varsParse, varsPool, varsSequential, cmd_of,
                   java_files, annotated_pkgs>>

\* run_benchmark, src/benchmarking/run_nullaway.py:190-209
FindPkgs ==
    /\ script = "command builder"
    /\ cmd_of = "src/benchmarking/run_nullaway.py"
    /\ annotated_pkgs = None
    /\ annotated_pkgs' = Some(strip(find_pkgs_command_paste(java_files)))
    /\ UNCHANGED <<varsEnv, varsParse, varsPool, varsSequential, cmd_of,
                   java_files, build_cmd>>

\* run_benchmark, src/benchmarking/run_nullaway.py:213-232
BuildCommand ==
    /\ script = "command builder"
    /\ cmd_of = "src/benchmarking/run_nullaway.py"
    /\ annotated_pkgs # None /\ build_cmd = None
    /\ build_cmd' = Some(command(Val(annotated_pkgs)))
    /\ UNCHANGED <<varsEnv, varsParse, varsPool, varsSequential, cmd_of,
                   java_files, annotated_pkgs>>

NextCmd == GetPluginOptions \/ GetBuildCmd \/ FindPkgs \/ BuildCommand

SpecCmd == InitCmd /\ [][NextCmd]_vars

(***************************************************************************)
(* The harness as a whole: a behaviour runs one of its programs.           *)
(***************************************************************************)
Init == InitParse \/ InitPool \/ InitSeq \/ InitBase \/ InitJars \/ InitCmd

Next == NextParse \/ NextPool \/ NextSeq \/ NextBase \/ NextJars \/ NextCmd

Spec == Init /\ [][Next]_vars

(***************************************************************************)
(* Properties of the log parser.                                           *)
(***************************************************************************)
\* The places where sub occurs in s.
Occurrences(s, sub) ==
    {i \in 1..(Len(s) - Len(sub) + 1) : SubSeq(s, i, i + Len(sub) - 1) = sub}

\* The largest number of occurrences of sub in s no two of which overlap.
NonOverlappingOccurrences(s, sub) ==
    LET disjoint(P) == \A i \in P : \A j \in P : i < j => j - i >= Len(sub)
        sizes == {Cardinality(P) : P \in {Q \in SUBSET Occurrences(s, sub) : disjoint(Q)}}
    IN  CHOOSE n \in sizes : \A m \in sizes : m <= n

\* C1: for every raw analyzer output the count each of the three parsing
\* steps returns (str.count in src/run_benchmark.py, re.findall in base_script.py,
\* re.finditer in src/benchmarking/run_nullaway.py) is the number of non-overlapping
\* occurrences of "error: [NullAway]" in it; no occurrence gives 0.
C1_CountIsOccurrences ==
    LET n == NonOverlappingOccurrences(raw, MARKER) IN
    /\ warningCount # None => Val(warningCount) = n
    /\ error_count # None => Val(error_count) = n
    /\ matches # None => Len(Val(matches)) = n
    /\ (Occurrences(raw, MARKER) = {} /\ warningCount # None /\ error_count # None
          /\ matches # None)
        => (Val(warningCount) = 0 /\ Val(error_count) = 0 /\ Val(matches) = <<>>)

\* A text with two markers, one of them put together from two pieces, has
\* been counted by all three steps.
C1_Witness ==
    /\ script = "parser"
    /\ Len(raw) < 3 * Len(MARKER)
    /\ warningCount = Some(2) /\ error_count = Some(2)
    /\ matches # None /\ Len(Val(matches)) = 2

(***************************************************************************)
(* Properties of the worker-pool variant.                                  *)
(***************************************************************************)
\* A task is between makedirs(COMPILATION_DIR) and rmtree(COMPILATION_DIR).
InSection(d) == task[d] \in {"javac", "log"}

\* C4: COMPILATION_DIR is exclusive per dataset execution: while one task is
\* between creating and removing the directory, no other task creates,
\* writes to or removes it, i.e. no two tasks are in that section at once.
C4_CompiledDirExclusive ==
    script = "src/run_benchmark.py" =>
        \A d \in Datasets : \A e \in Datasets :
            (InSection(d) /\ InSection(e)) => d = e

C8_AnalyzerFailureGivesSentinel ==
    script = "src/run_benchmark.py" =>
        \A d \in Datasets :
            javac_status[d] \in {"exit1", "timeout"} =>
                /\ mpc # "crashed"
                /\ task[d] # "raised"
                /\ task[d] = "done" => Val(ret[d]).value = SENTINEL

\* C9: a refactor step that times out for one dataset does not crash the
\* full run: the pipeline goes on to analyze-after and summarize.
C9_RefactorTimeoutTolerated ==
    (script = "src/run_benchmark.py" /\ argv = "") =>
        ((\E d \in Datasets : refactor_status[d] = "timeout")
            => mpc # "crashed")

\* The analyzer runs made on dataset d in a phase.
RunsIn(d, phase) == SelectSeq(analyzed[d], LAMBDA r : r.phase = phase)

\* The pool's full run has written the table with both counts.
PoolTableDone ==
    /\ script = "src/run_benchmark.py" /\ argv = ""
    /\ todo \in {<<>>, <<"summarize">>} /\ mpc # "crashed"
    /\ OUTPUT_CSV # None
    /\ \A i \in 1..Len(Val(OUTPUT_CSV)) :
          "post_value" \in DOMAIN Val(OUTPUT_CSV)[i]

\* The count parsed from the one analyzer run of dataset d in a phase.
ParsedIn(d, phase) == Val(RunsIn(d, phase)[1].found)

\* C12: every row of the final table pairs counts of one dataset: the row
\* named D holds the count parsed from D's analyzer run before the
\* refactoring and the count parsed from D's analyzer run after it (for
\* an entry that is no directory, which is never analyzed, the sentinel
\* twice), in whatever order the tasks complete.
C12_RowsPairSameDataset ==
    PoolTableDone =>
        \A i \in 1..Len(Val(OUTPUT_CSV)) :
            LET r == Val(OUTPUT_CSV)[i] IN
            IF isdir[r.name]
            THEN /\ Len(RunsIn(r.name, "before")) = 1
                 /\ Len(RunsIn(r.name, "after")) = 1
                 /\ r.pre_value = ParsedIn(r.name, "before")
                 /\ r.post_value = ParsedIn(r.name, "after")
            ELSE r.pre_value = SENTINEL /\ r.post_value = SENTINEL

\* A finished full run whose tasks completed in one order before the
\* refactoring and in the other after it, with different counts.
C12_Witness ==
    /\ PoolTableDone /\ mpc = "done"
    /\ \A d \in Datasets : isdir[d]
    /\ Val(OUTPUT_CSV)[1].name = 2
    /\ Len(completed) = NumDatasets /\ completed[1] = 1
    /\ Val(OUTPUT_CSV)[1].post_value # Val(OUTPUT_CSV)[2].post_value

\* The names of the rows of a table.
Names(table) == {table[i].name : i \in 1..Len(table)}

\* C13: every full run ends with the full results table persisted: when a
\* full run of the worker-pool script is done, the results file holds one
\* row per dataset with both counts and the derived column, and when a
\* full run of the script with jar checks is done, the results directory
\* holds a summary table with one row per benchmarked dataset.
C13_FullTablePersisted ==
    /\ (script = "src/run_benchmark.py" /\ argv = "" /\ mpc = "done") =>
            /\ OUTPUT_CSV # None
            /\ Names(Val(OUTPUT_CSV)) = Datasets
            /\ \A i \in 1..Len(Val(OUTPUT_CSV)) :
                  {"pre_value", "post_value", "difference"}
                      \subseteq DOMAIN Val(OUTPUT_CSV)[i]
    /\ (script = "src/benchmarking/run_benchmark.py" /\ pc = "done") =>
            /\ RESULTS # None
            /\ Val(RESULTS).summary # None
            /\ Len(Val(Val(RESULTS).summary)) = Len(results)

\* C14: in every state both counts of every recorded result are
\* non-negative integers: the value of every result a task of the worker
\* pool has returned for the table, and the initial and refactored error count of every
\* row the per-dataset scripts have appended to their results.
C14_CountsNonNegative ==
    /\ script = "src/run_benchmark.py" =>
            \A d \in Datasets : ret[d] # None => Val(ret[d]).value >= 0
    /\ script = "src/benchmarking/base_script.py" =>
            \A i \in 1..Len(results) :
                /\ results[i].initial_error_count >= 0
                /\ results[i].refactored_error_count >= 0
    /\ script = "src/benchmarking/run_benchmark.py" =>
            \A i \in 1..Len(results) :
                /\ results[i].initial_error_count # None
                /\ results[i].refactored_error_count # None

\* C15: once the cache is populated no benchmarking stage writes to it or
\* deletes from it: every step taken with a non-empty cache, other than the
\* full-clean command, leaves the cache as it is, and no dataset in the
\* cache is ever annotated or refactored.
C15_CacheFrame ==
    /\ [](\A e \in DATASETS_CACHE : e.kind \in {"original", "file"})
    /\ [][(DATASETS_CACHE # {} /\ pc # "full-clean")
            => DATASETS_CACHE' = DATASETS_CACHE]_vars

\* A finished run of base_script.py that has refactored a dataset of the
\* working copy and still has the archive in its cache.
C15_Witness ==
    /\ script = "src/benchmarking/base_script.py" /\ pc = "done"
    /\ DATASETS_CACHE = ARCHIVE
    /\ DATASETS_REFACTORED # None
    /\ \E e \in Val(DATASETS_REFACTORED) : e.kind = "refactored"
    /\ "REFACTOR" \in Range(stages)

\* C16: run_benchmarks returns its table only after every submitted task
\* has completed, and when no task has failed the table holds exactly one
\* row for every dataset, whatever the order of completion: the main
\* program leaves the join only when no task is queued or running, and
\* then, unless a task raised, the table of an analysis stage (and the
\* file initialize_benchmark writes from it) has as many rows as there
\* are datasets and every dataset's name among them.
C16_FanInComplete ==
    [][(script = "src/run_benchmark.py" /\ mpc = "join" /\ mpc' # "join") =>
        /\ \A d \in Datasets : task[d] \in {"done", "raised"}
        /\ (mpc' # "crashed" /\ Stage # "refactor") =>
              /\ Len(run_benchmarks) = NumDatasets
              /\ Names(run_benchmarks) = Datasets
        /\ (mpc' # "crashed" /\ Stage = "initialize_benchmark") =>
              /\ Len(Val(OUTPUT_CSV')) = NumDatasets
              /\ Names(Val(OUTPUT_CSV')) = Datasets]_vars

\* initialize_benchmark has written its table after the last dataset's task
\* completed first.
C16_Witness ==
    /\ script = "src/run_benchmark.py" /\ mpc = "start"
    /\ todo # <<>> /\ Stage = "refactor"
    /\ Len(completed) = NumDatasets /\ completed[1] = NumDatasets
    /\ OUTPUT_CSV = Some(rename(run_benchmarks, "pre_value"))

\* The step on which the pool takes up the task of dataset d.
Starts(d) == task[d] = "queued" /\ task'[d] # "queued"

\* The step on which the main program submits the tasks of a stage.
Submits(stage) == mpc = "start" /\ mpc' = "join" /\ Stage = stage

\* C17: in the worker pool's full run the three phases are sequential within
\* each dataset.  The refactor tasks are submitted only when every dataset's
\* analyze-before task has returned its result, the analyze-after tasks
\* only when every dataset's refactor task has ended, a task is taken up
\* only after its stage's submission and within that stage, and when D's
\* refactoring is taken up D has had its one analysis before and none
\* after.
C17_PhasesSequentialPerDataset ==
    [][(script = "src/run_benchmark.py" /\ argv = "") =>
        /\ Submits("refactor") =>
              \A d \in Datasets :
                  /\ task[d] = "done" /\ ret[d] # None
                  /\ refactor_status[d] = "none"
        /\ Submits("finalize_benchmark") =>
              \A d \in Datasets :
                  /\ task[d] = "done"
                  /\ refactor_status[d] \in {"exit0", "exit1"}
        /\ \A d \in Datasets :
              Starts(d) =>
                  /\ mpc = "join" /\ mpc' = "join" /\ todo' = todo
                  /\ Stage = "refactor" =>
                        /\ isdir[d] => Len(RunsIn(d, "before")) = 1
                        /\ RunsIn(d, "after") = <<>>
                  /\ (Stage = "finalize_benchmark" /\ isdir[d]) =>
                        Len(RunsIn(d, "before")) = 1]_vars

\* The analyses after the refactoring of two datasets run at the same time.
C17_Witness ==
    /\ script = "src/run_benchmark.py" /\ argv = "" /\ mpc = "join"
    /\ Stage = "finalize_benchmark"
    /\ task[1] \in Running /\ task[2] \in Running

\* A run of the summarize command of the worker-pool script or of the
\* summary command of the staged script.
SummarizeOnly ==
    \/ script = "src/run_benchmark.py" /\ argv = "summarize"
    \/ script = "src/benchmarking/run_nullaway.py" /\ sys_argv = "summary"

\* C18: a summarize-only run starts no analyzer and no refactorer (no javac
\* run is made, no pool task exists, no pipeline stage is entered) and no
\* step of it changes the persisted results file or any dataset file.
C18_SummarizeOnlyFrame ==
    /\ [](SummarizeOnly =>
            /\ analyzed = NotAnalyzed
            /\ \A d \in Datasets :
                  task[d] = "idle" /\ refactor_status[d] = "none"
            /\ stages = <<>>
            /\ tool_failed = {})
    /\ [][SummarizeOnly =>
            UNCHANGED <<OUTPUT_CSV, dataset_state, RESULTS, DATASETS_CACHE,
                        DATASETS_REFACTORED>>]_vars

\* The summarize command of the worker-pool script has averaged the table
\* an earlier full run saved.
C18_Witness ==
    /\ script = "src/run_benchmark.py" /\ argv = "summarize"
    /\ mpc = "done" /\ df # None
    /\ OUTPUT_CSV = Some(EarlierFullCsv(isdir))

\* What both cleaning commands remove.
Generated == <<DATASETS_REFACTORED, RESULTS, SOURCES, COMPILED_CLASSES>>

\* C19: the clean command of the staged script removes the refactored
\* datasets, the results, the source lists and the compiled classes and
\* leaves the cache as it is; full-clean removes the cache as well; both
\* end the program at once, and a run of either enters no benchmarking
\* stage and starts no tool.
C19_CleanFrame ==
    /\ [][(script = "src/benchmarking/run_nullaway.py" /\ pc = "clean") =>
            /\ Generated' = <<None, None, None, None>>
            /\ DATASETS_CACHE' = DATASETS_CACHE
            /\ pc' = "done"]_vars
    /\ [][(script = "src/benchmarking/run_nullaway.py" /\ pc = "full-clean") =>
            /\ Generated' = <<None, None, None, None>>
            /\ DATASETS_CACHE' = {}
            /\ pc' = "done"]_vars
    /\ []((script = "src/benchmarking/run_nullaway.py"
            /\ sys_argv \in {"clean", "full-clean"}) =>
              /\ stages = <<>> /\ analyzed = NotAnalyzed /\ tool_failed = {}
              /\ pc \in {sys_argv, "done"})

\* clean has ended with the archive still in the cache and nothing else left.
C19_Witness ==
    /\ script = "src/benchmarking/run_nullaway.py" /\ sys_argv = "clean"
    /\ pc = "done"
    /\ DATASETS_CACHE = ARCHIVE
    /\ Generated = <<None, None, None, None>>

\* The datasets run() has benchmarked so far followed by those it has yet
\* to benchmark.
Benchmarked == [i \in 1..Len(results) |-> results[i].benchmark]

Selected == Benchmarked \o datasets_list

Min(a, b) == IF a < b THEN a ELSE b

\* C20: base_script.py accepts --run N only for 1 <= N <= 296 and rejects
\* any other N before any stage is entered (argparse ends the program with
\* status 2); a run with limit N benchmarks min(N, number of entries
\* listed) different entries of the listing and records exactly one row
\* for each of them.
C20_RunLimit ==
    (script = "src/benchmarking/base_script.py" /\ limit # None) =>
        /\ Val(limit) \notin 1..MaxDatasetCount =>
              /\ pc \in {"parse_args", "exited"}
              /\ pc = "exited" => exit_code = Some(2)
              /\ stages = <<>> /\ analyzed = NotAnalyzed
              /\ results = <<>>
        /\ pc \in {"annotate", "get_errors_old", "refactor", "get_errors_new",
                    "summarize", "done"} =>
              /\ Len(Selected) =
                    Min(Val(limit), Cardinality(Val(DATASETS_REFACTORED)))
              /\ \A i, j \in 1..Len(Selected) :
                    Selected[i] = Selected[j] => i = j
              /\ Range(Selected) \subseteq
                    {e.name : e \in Val(DATASETS_REFACTORED)}
        /\ pc = "done" => Len(results) =
                             Min(Val(limit), Cardinality(Val(DATASETS_REFACTORED)))

\* A finished run with --run 1 over a listing of more than one dataset.
C20_Witness ==
    /\ script = "src/benchmarking/base_script.py" /\ limit = Some(1)
    /\ pc = "done" /\ Len(results) = 1
    /\ Cardinality(Val(DATASETS_REFACTORED)) > 1

(***************************************************************************)
(* Properties of the staged sequential variant.                            *)
(***************************************************************************)
Staged == script = "src/benchmarking/run_nullaway.py"

\* The program has ended: normally, by sys.exit, or by an exception.
Ended == pc \in {"done", "exited", "crashed"}

\* The dataset directories the run has before it.
DatasetDirs == {e.name : e \in {x \in DATASETS_CACHE : IsDir(x)}}

\* A run with no subcommand, every tool of which has exited normally, over
\* at least one dataset directory.
FullRun == sys_argv = "" /\ tool_failed = {} /\ DatasetDirs # {}

\* C2: in a full run every dataset is analyzed exactly once before and
\* exactly once after the refactorer, and both analyzer runs compile the
\* same copy, the working copy the refactorer rewrites, never the cache.
C2_AnalyzedOnceBeforeOnceAfter ==
    (Staged /\ FullRun /\ Ended) =>
        \A d \in DatasetDirs :
            /\ Len(RunsIn(d, "before")) = 1
            /\ Len(RunsIn(d, "after")) = 1
            /\ RunsIn(d, "before")[1].copy = "refactored"
            /\ RunsIn(d, "after")[1].copy = "refactored"

FULL_RUN == <<"INIT", "ANALYZE_BEFORE", "REFACTOR", "ANALYZE_AFTER", "SUMMARIZE">>

\* C3: a full run passes through INIT, ANALYZE_BEFORE, REFACTOR,
\* ANALYZE_AFTER, SUMMARIZE in this order, each once, and does not end
\* before SUMMARIZE.
C3_FullRunReachesSummarize ==
    (Staged /\ FullRun) =>
        /\ \E n \in 0..Len(FULL_RUN) : stages = SubSeq(FULL_RUN, 1, n)
        /\ Ended => stages = FULL_RUN

\* C10: a non-zero exit code of the refactoring tool does not abort the
\* pipeline: the program is not ended by it, the analysis after the
\* refactoring and the summary still run.
C10_RefactorFailureDoesNotAbort ==
    (Staged /\ "gradlew" \in tool_failed) =>
        /\ pc # "exited"
        /\ Ended => /\ "ANALYZE_AFTER" \in Range(stages)
                    /\ "SUMMARIZE" \in Range(stages)

(***************************************************************************)
(* Properties of the summary table.                                        *)
(***************************************************************************)
\* The tables a sequential variant holds: the frame and the saved file.
SummaryTables ==
    (IF benchmark_results # None THEN {Val(benchmark_results)} ELSE {}) \cup
    (IF RESULTS # None /\ Val(RESULTS).summary # None
     THEN {Val(Val(RESULTS).summary)} ELSE {})

SummaryRows ==
    {r \in UNION {Range(t) : t \in SummaryTables} :
        "error_reduction" \in DOMAIN r}

\* C6: a row whose initial_error_count is 0 has no error_reduction_percent
\* (a null, neither 0 nor an infinity), and the mean percentage is taken
\* over the rows with a non-zero initial count only.
C6_ZeroInitialExcludedFromMean ==
    (script = "src/benchmarking/base_script.py" /\ stats # None) =>
        LET table == Val(benchmark_results)
            nonzero == {i \in 1..Len(table) : table[i].initial_error_count # 0}
        IN  /\ \A i \in 1..Len(table) :
                  i \notin nonzero => table[i].error_reduction_percent = None
            /\ Val(stats).avg_percent_reduction =
                  <<SeqSum([i \in 1..Len(table) |->
                              IF i \in nonzero
                              THEN Val(table[i].error_reduction_percent)
                              ELSE 0]),
                    Cardinality(nonzero)>>

\* C7: in every row of a summary table error_reduction is
\* initial_error_count minus refactored_error_count, below zero when the
\* refactored count is the larger; so is difference in the pool's table.
C7_ReductionIsDifference ==
    /\ \A r \in SummaryRows :
          r.error_reduction + r.refactored_error_count = r.initial_error_count
    /\ df # None =>
          \A i \in 1..Len(Val(df).rows) :
              LET r == Val(df).rows[i] IN
              r.difference + r.post_value = r.pre_value

\* A finished base_script.py run has saved a row whose refactored count is
\* larger than its initial count.
C7_Witness ==
    /\ script = "src/benchmarking/base_script.py" /\ pc = "done"
    /\ RESULTS # None /\ Val(RESULTS).summary # None
    /\ \E r \in Range(Val(Val(RESULTS).summary)) :
          /\ r.refactored_error_count > r.initial_error_count
          /\ r.error_reduction < 0

(***************************************************************************)
(* Properties of the initialization stage.                                 *)
(***************************************************************************)
\* The download or the extraction of the datasets failed, or a missing jar
\* could not be fetched.
SetupFailed == tool_failed \cap {"wget", "unzip", "wget jar"} # {}

InitStageOnly == stages = <<"INIT">>

\* C11: after an unrecoverable setup failure of the initialization stage
\* the process is ended with exit code 1, and no analyzer and no
\* refactorer has been or will be started for any dataset.
C11_SetupFailureExitsOne ==
    SetupFailed =>
        /\ pc = "exited"
        /\ exit_code = Some(1)
        /\ InitStageOnly
        /\ analyzed = NotAnalyzed
        /\ ~ENABLED Next

\* A jar was missing and its download failed; so did, in other runs, the
\* download and the extraction of the datasets.
C11_Witness ==
    /\ script = "src/benchmarking/run_benchmark.py"
    /\ "wget jar" \in tool_failed
    /\ PROCESSOR_JARS[4] \notin jars
    /\ pc = "exited"

(***************************************************************************)
(* Properties of the staged variant with jar checks.                       *)
(***************************************************************************)
\* C21: stage_zero of the script with jar checks ends the program with
\* status 1 only when a step of it has failed: after a successful move of
\* the working copy of an earlier run the initialization goes on, so the
\* program is never found ended with status 1 while no tool has failed.
C21_SavedRunContinues ==
    (script = "src/benchmarking/run_benchmark.py"
     /\ pc = "exited" /\ exit_code = Some(1)) => tool_failed # {}

\* C22: stage_one_count_errors returns the number of markers whenever the
\* build ends with status 0.  A build of a dataset that ends with status 0
\* leaves the dataset's classes in the compiled-classes directory, so a
\* recorded row of a dataset whose classes are there has a count from at
\* least one of its two builds.
C22_CountReturnedOnExitZero ==
    (script = "src/benchmarking/run_benchmark.py" /\ COMPILED_CLASSES # None) =>
        \A i \in 1..Len(results) :
            results[i].benchmark \in Val(COMPILED_CLASSES) =>
                \/ results[i].initial_error_count # None
                \/ results[i].refactored_error_count # None

(***************************************************************************)
(* Properties of the per-dataset sequential variants.                      *)
(***************************************************************************)
\* The program is about to start an analyzer run of the dataset in hand.
AnalyzerRunStarts ==
    \/ /\ script = "src/benchmarking/base_script.py"
       /\ pc \in {"get_errors_old", "get_errors_new"}
    \/ /\ script = "src/benchmarking/run_benchmark.py"
       /\ pc \in {"stage_one_count_errors_old", "stage_one_count_errors_new"}

\* C23: when the analyzer run of a dataset starts, the shared
\* compiled-classes directory holds no compiled output of a dataset
\* processed before it.
C23_CompiledClassesCleared ==
    (AnalyzerRunStarts /\ COMPILED_CLASSES # None) =>
        Val(COMPILED_CLASSES) \ {dataset} = {}

(***************************************************************************)
(* Properties of the build command.                                        *)
(***************************************************************************)
RECURSIVE split(_, _)
\* The elements of a sep-separated list.
split(s, sep) ==
    IF find(s, sep) = 0 THEN <<s>>
    ELSE <<SubSeq(s, 1, find(s, sep) - 1)>>
         \o split(SubSeq(s, find(s, sep) + Len(sep), Len(s)), sep)

\* The elements of the annotated-package list s; the empty list has none.
PackageList(s) == IF s = <<>> THEN <<>> ELSE split(s, <<",">>)

\* The lines of a file that declare a package.
PackageDeclarations(file) ==
    {i \in DOMAIN file : startswith(file[i], KEYWORD)}

\* The name in a `package` declaration, without the closing semicolon.
DeclaredName(line) == sed_s(Field(line, 2), <<";">>, <<>>)

\* The package names of the first `package` declaration of every file;
\* a declaration without a name is malformed.
FirstDeclared(files) ==
    {DeclaredName(files[f][CHOOSE i \in PackageDeclarations(files[f]) :
                               \A j \in PackageDeclarations(files[f]) : i <= j]) :
        f \in {g \in DOMAIN files : PackageDeclarations(files[g]) # {}}}
    \ {<<>>}

\* C24: the annotated-package list holds, once each and with nothing else,
\* the package name of the first `package` declaration of every Java source
\* file of the dataset.
C24_AnnotatedPackages ==
    (script = "command builder" /\ annotated_pkgs # None) =>
        LET list == PackageList(Val(annotated_pkgs))
        IN  /\ \A i, j \in DOMAIN list : list[i] = list[j] => i = j
            /\ Range(list) = FirstDeclared(java_files)

\* The argument of the command cmd that follows the argument flag.
ArgAfter(cmd, flag) ==
    cmd[1 + CHOOSE i \in DOMAIN cmd : cmd[i] = <<flag>>]

\* The processor jar paths a script configures, in configuration order.
ConfiguredJars ==
    IF cmd_of = "src/benchmarking/base_script.py"
    THEN base_PROCESSOR_JAR_LIST ELSE PROCESSOR_JARS

\* C25: in the command of get_build_cmd the argument after -processorpath
\* is the configured processor jar paths joined by colons, in configuration
\* order, in base_script.py and in benchmarking/run_benchmark.py.
C25_ProcessorPath ==
    (script = "command builder" /\ build_cmd # None
     /\ cmd_of \in {"src/benchmarking/base_script.py",
                    "src/benchmarking/run_benchmark.py"}) =>
        ArgAfter(Val(build_cmd), "-processorpath")
            = str_join(":", Strs(ConfiguredJars))

(***************************************************************************)
(* Properties of the worker-pool variant: source lists and finalize.       *)
(***************************************************************************)
\* The dataset's task has written its source list and not yet returned.
HoldsSourceList(d) == task[d] \in {"javac", "log"}

\* C26: a dataset task whose compiler is about to read the source list
\* reads a file of its own: the file holds this dataset's list, and no
\* other task that is running meanwhile uses a file of the same name.
C26_OwnSourceListFile ==
    script = "src/run_benchmark.py" =>
        \A d \in Datasets :
            task[d] = "javac" =>
                /\ temp_src_filename[d] # None
                /\ tmp[Val(temp_src_filename[d])] = d
                /\ \A e \in Datasets \ {d} :
                       HoldsSourceList(e) =>
                           temp_src_filename[e] # temp_src_filename[d]

\* Two dataset tasks are between writing their source list and compiling.
C26_Witness ==
    /\ script = "src/run_benchmark.py"
    /\ \E d, e \in Datasets : d # e /\ task[d] = "javac" /\ task[e] = "javac"

\* A finalize pass has ended on the datasets, and over the results file,
\* that an earlier finalize pass left behind.
FinalizedAgain ==
    /\ script = "src/run_benchmark.py"
    /\ argv = "finalize" /\ mpc = "done"
    /\ dataset_state = EarlierRefactored(isdir)

====
